---- MODULE Spec2Model ----
(***************************************************************************)
(* Model of listener.py: the supervised multi-instance LISTEN/NOTIFY       *)
(* mailer.  One DatabaseListener worker per configured instance runs       *)
(* listen_and_process in a pool thread; main() polls the futures and       *)
(* restarts terminated workers; graph_token caches one access token per    *)
(* Azure tenant id in the module-level dictionary _tokens, guarded by      *)
(* _token_lock.                                                            *)
(***************************************************************************)
EXTENDS Integers, Sequences, FiniteSets, TLC

\* ---------------------------------------------------------------- bounds
MaxClock == 90        \* the wall clock is observed from 0 up to MaxClock seconds
ClockStep == 30       \* granularity of the observed wall clock, in seconds
MaxIssued == 3        \* the identity provider issues at most this many tokens
MaxRestarts == 2      \* a tenant's task terminates at most this many times
MaxId == 2            \* record identifiers are 1..MaxId
ShortLifetime == 90   \* an expires_in value reported by the identity provider
MaxUnset == 3         \* an environment differs from its base in at most MaxUnset variables

\* ------------------------------------------------------ program constants
TokenMargin == 60                \* graph_token: exp - time.time() > 60
DefaultLifetime == 3600          \* body.get("expires_in", 3600)
max_reconnect_attempts == 3      \* listen_and_process
InitialDelay == 10000            \* reconnect_delay = 10 (milliseconds here)
DelayStep == 5000                \* reconnect_delay + 5
DelayCapShort == 30000           \* min(reconnect_delay + 5, 30)
DelayCapLong == 60000            \* min(reconnect_delay * 1.5, 60)

\* The configured instances (Instance-1, Instance-2), in the order of configs.
Tenants == {1, 2}
LastTenant == CHOOSE t \in Tenants : \A u \in Tenants : u <= t
\* Azure tenant ids an instance can be configured with (TENANT_ID, TENANT_ID_2).
TenantIds == {"tidA", "tidB"}
Ids == 1..MaxId

VARIABLES
    cfgTid,     \* cfgTid[t]: config.tenant_id of instance t
    now,        \* time.time(), in seconds
    issued,     \* number of access tokens the identity provider has issued
    tokens,     \* _tokens: tenant id -> [val, exp]; a key is absent until written
    lock,       \* _token_lock: 0 when free, else the instance whose thread holds it
    supPc,      \* main(): "sleep", "poll" or "stopped"
    supIdx,     \* main(): position of the for loop over futures.items()
    fut,        \* futures[instance_name]: identity of the tracked Future
    task,       \* state of that Future: "running", "returned" or "raised"
    pc,         \* where the worker thread of each instance is
    conn,       \* DatabaseListener.conn: "none" or "open"
    attempts,   \* reconnect_attempts
    delay,      \* reconnect_delay, in milliseconds
    ev,         \* the decoded notification being handled
    rec,        \* the record handed to send_email
    calls,      \* the calls made so far while handling the current notification
    body,       \* graph_token: the token response body
    bearer,     \* the value graph_token returned to send_email
    outcome,    \* how the worker's latest notification ended, until it moves on
    nrec,       \* send_email on its own: the record it is called with
    nmsg,       \* send_email on its own: the message it builds
    nnorm,      \* the resolver's normalization of that record, once it is done
    fetch_conn, \* fetch_full_record: its connection, "none" or "open"
    environ,    \* os.environ: the variables that have a non-empty value
    loaded      \* what load_instance_configs did, and the workers main() submitted

vars == <<cfgTid, now, issued, tokens, lock, supPc, supIdx, fut, task,
          pc, conn, attempts, delay, ev, rec, calls, body, bearer, outcome,
          nrec, nmsg, nnorm, fetch_conn, environ, loaded>>

supVars == <<supPc, supIdx>>
cacheVars == <<tokens, lock, issued>>
connVars == <<conn, attempts, delay>>
eventVars == <<ev, rec, calls, body, bearer>>
normVars == <<nrec, nmsg, nnorm>>
loadVars == <<environ, loaded>>

\* ------------------------------------------------------------ data shapes
NoEvent == [kind |-> "none"]
NoRecord == [src |-> "none"]
NoBody == [status |-> "none"]
UnboundBody == [status |-> "unbound"]
NoTokenBody == [status |-> "no_token"]
NoToken == [ser |-> 0, client |-> 0]
NoLifetime == -1
NoRequest == [sender |-> <<>>, to |-> <<>>, bearer |-> NoToken, subject |-> "none"]
NoOutcome == [how |-> "none", ev |-> NoEvent, mails |-> 0, req |-> NoRequest]
NoMessage == [status |-> "none"]
NotNormalized == [done |-> FALSE, val |-> <<>>]

\* config.from_email and config.to_email of instance t.
FromEmail(t) == <<"from_email", t>>
ToEmail(t) == <<"to_email", t>>

\* A notification payload: text that is not JSON, JSON that is not an object,
\* or an object, given by its key set and the value under "id".
PayloadKeys == {"id", "name"}
Payloads ==
    {[kind |-> "malformed"], [kind |-> "nonobject"]}
    \cup {[kind |-> "object", keys |-> k, id |-> i] :
            k \in {x \in SUBSET PayloadKeys : "id" \in x}, i \in Ids}
    \cup {[kind |-> "object", keys |-> k, id |-> 0] :
            k \in {x \in SUBSET PayloadKeys : "id" \notin x}}

\* Variant of IsReference without the length test.
IsReferenceAnyLength(p) == "id" \in p.keys

\* "id" in notification_data and len(notification_data) == 1
IsReference(p) == "id" \in p.keys /\ Cardinality(p.keys) = 1

\* body.get("expires_in", 3600)
Lifetime(b) == IF b.expires_in = NoLifetime THEN DefaultLifetime ELSE b.expires_in

\* Variants of CacheHit with the remaining validity computed the wrong way
\* round, and with the margin itself counted as usable.
CacheHitSwapped(tid) == tid \in DOMAIN tokens /\ now - tokens[tid].exp > TokenMargin
CacheHitInclusive(tid) == tid \in DOMAIN tokens /\ tokens[tid].exp - now >= TokenMargin

\* tenant_id in _tokens and token_info["exp"] - time.time() > 60
CacheHit(tid) == tid \in DOMAIN tokens /\ tokens[tid].exp - now > TokenMargin

\* -------------------------------------------- send_email: the message
\* A record is a mapping from some of NormKeys to values; a value is None
\* (Null) or a text.  The keys send_email reads and NormKeys leaves out are
\* absent from every record.
NormKeys == {"company", "service", "inquiry_type", "first_name", "last_name",
             "name", "phone", "consent"}
Null == "null"
FieldValues == {Null, "text"}
Records == UNION {[K -> FieldValues] : K \in SUBSET NormKeys}
KeyError == "KeyError"

\* A value as an f-string shows it, and its truth value.
Show(v) == IF v = Null THEN "None" ELSE v
Truthy(v) == v # Null

\* Variant of Get that indexes the record, record[k].
GetStrict(r, k, d) == IF k \in DOMAIN r THEN Show(r[k]) ELSE KeyError

\* record.get(k, d) inside an f-string.
Get(r, k, d) == IF k \in DOMAIN r THEN Show(r[k]) ELSE d

\* record.get(k) or d inside an f-string.
GetOr(r, k, d) == IF k \in DOMAIN r /\ Truthy(r[k]) THEN Show(r[k]) ELSE d

\* Variant of Classify that tests for a quote request first.
ClassifyQuoteFirst(keys) ==
    IF "company" \in keys /\ "service" \in keys THEN "quote"
    ELSE IF "inquiry_type" \in keys /\ ("first_name" \in keys \/ "last_name" \in keys)
    THEN "contact"
    ELSE "inquiry"

\* is_quote_request, is_contact_submission and the if / elif / else over
\* them, lines 311-349.
Classify(keys) ==
    IF "inquiry_type" \in keys /\ ("first_name" \in keys \/ "last_name" \in keys)
    THEN "contact"
    ELSE IF "company" \in keys /\ "service" \in keys THEN "quote"
    ELSE "inquiry"

\* header, lines 316, 332 and 351; subject is the header after an emoji.
HeaderOf(kind) ==
    CASE kind = "contact" -> "New Contact Submission Received"
      [] kind = "quote" -> "New Quote Request Received"
      [] OTHER -> "New Inquiry Received"

\* Variant of NormalizeContact that moves first_name and last_name into name
\* instead of copying them.
NormalizeContactMoves(r) ==
    LET named ==
          IF "first_name" \in DOMAIN r /\ "last_name" \in DOMAIN r
          THEN "name" :> (Show(r["first_name"]) \o " " \o Show(r["last_name"]))
          ELSE IF "first_name" \in DOMAIN r THEN "name" :> r["first_name"]
          ELSE IF "last_name" \in DOMAIN r THEN "name" :> r["last_name"]
          ELSE <<>>
        subject ==
          IF "inquiry_type" \in DOMAIN r
          THEN "Contact Inquiry - " \o Show(r["inquiry_type"])
          ELSE "Contact Inquiry"
        vehicle ==
          IF "inquiry_type" \in DOMAIN r THEN r["inquiry_type"]
          ELSE "Contact Submission"
        rest == [k \in DOMAIN r \ {"first_name", "last_name"} |-> r[k]]
    IN named @@ ("subject" :> subject) @@ ("vehicle_id" :> vehicle) @@ rest

\* _normalize_contact_submission_fields, lines 471-498.
NormalizeContact(r) ==
    LET named ==
          IF "first_name" \in DOMAIN r /\ "last_name" \in DOMAIN r
          THEN "name" :> (Show(r["first_name"]) \o " " \o Show(r["last_name"]))
          ELSE IF "first_name" \in DOMAIN r THEN "name" :> r["first_name"]
          ELSE IF "last_name" \in DOMAIN r THEN "name" :> r["last_name"]
          ELSE <<>>
        subject ==
          IF "inquiry_type" \in DOMAIN r
          THEN "Contact Inquiry - " \o Show(r["inquiry_type"])
          ELSE "Contact Inquiry"
        vehicle ==
          IF "inquiry_type" \in DOMAIN r THEN r["inquiry_type"]
          ELSE "Contact Submission"
    IN named @@ ("subject" :> subject) @@ ("vehicle_id" :> vehicle) @@ r

\* The record the body lines are read from: the normalized copy for a contact
\* submission, the record itself otherwise, lines 319-362.
LineSource(r) ==
    IF Classify(DOMAIN r) = "contact" THEN NormalizeContact(r) ELSE r

\* One body line: its label, the key it reads, what it shows for a missing
\* field, and what it shows.
Line(label, k, d, v) == [label |-> label, key |-> k, default |-> d, value |-> v]
Plain(r, label, k) == Line(label, k, "--", Get(r, k, "--"))
Falsy(r, label, k, d) == Line(label, k, d, GetOr(r, k, d))

\* body_lines, lines 322-362.
BodyLines(r) ==
    LET n == LineSource(r) IN
    CASE Classify(DOMAIN r) = "contact" ->
           <<Plain(n, "Name", "name"), Plain(n, "Email", "email"),
             Falsy(n, "Phone", "phone", "--"),
             Plain(n, "Inquiry Type", "inquiry_type"),
             Plain(n, "Message", "message"), Plain(n, "Created At", "created_at")>>
      [] Classify(DOMAIN r) = "quote" ->
           <<Plain(n, "Name", "name"), Plain(n, "Email", "email"),
             Falsy(n, "Phone", "phone", "--"),
             Plain(n, "Company", "company"), Plain(n, "Service", "service"),
             Plain(n, "Message", "message"),
             Line("Consent", "consent", "No",
                  IF GetOr(n, "consent", "No") = "No" THEN "No" ELSE "Yes"),
             Falsy(n, "Current Ships", "current_shipments", "N/A"),
             Falsy(n, "Expected Ships", "expected_shipments", "N/A"),
             Falsy(n, "Services", "services", "N/A"),
             Plain(n, "Created At", "created_at"), Plain(n, "Status", "status")>>
      [] OTHER ->
           <<Plain(n, "Name", "name"), Plain(n, "Email", "email"),
             Falsy(n, "Phone", "phone", "--"),
             Plain(n, "Subject", "subject"), Plain(n, "Message", "message"),
             Falsy(n, "Vehicle ID", "vehicle_id", "N/A"),
             Plain(n, "Created At", "created_at"), Plain(n, "Status", "status")>>

\* subject and body_text, lines 314-365.
Message(r) ==
    [status |-> "built", kind |-> Classify(DOMAIN r),
     subject |-> HeaderOf(Classify(DOMAIN r)), header |-> HeaderOf(Classify(DOMAIN r)),
     lines |-> BodyLines(r)]

Running(t) == task[t] = "running"
Done(t) == task[t] \in {"returned", "raised"}

\* ------------------------------------------- load_instance_configs, main
\* The instances the loader knows, and the suffix of their variable names.
Slots == {1, 2, 3}
Suffix(n) == CASE n = 1 -> "" [] n = 2 -> "_2" [] OTHER -> "_3"

\* INSTANCE_1_VARS .. INSTANCE_3_VARS and INSTANCE_1_DB_VARS ..
\* INSTANCE_3_DB_VARS, lines 39-64, and DATABASE_URL, DATABASE_URL_2,
\* DATABASE_URL_3.
MailBases == <<"TENANT_ID", "CLIENT_ID", "CLIENT_SECRET", "FROM_EMAIL", "TO_EMAIL">>
DbBases == <<"PGHOST", "PGDATABASE", "PGUSER", "PGPASSWORD">>
InstanceVars(n) == [i \in DOMAIN MailBases |-> MailBases[i] \o Suffix(n)]
InstanceDbVars(n) == [i \in DOMAIN DbBases |-> DbBases[i] \o Suffix(n)]
DbUrl(n) == "DATABASE_URL" \o Suffix(n)

Range(f) == {f[i] : i \in DOMAIN f}
SlotNames(n) == Range(InstanceVars(n)) \cup Range(InstanceDbVars(n)) \cup {DbUrl(n)}
AllNames == UNION {SlotNames(n) : n \in Slots}

\* os.getenv(v): None for a variable that is absent or empty, else its value,
\* written "$" and the variable's name.
getenv(e, v) == IF v \in e THEN "$" \o v ELSE Null

\* [var for var in names if not os.getenv(var)]
Missing(e, names) == SelectSeq(names, LAMBDA v : v \notin e)

\* Variant of Channel that leaves listen_channel at the dataclass default.
ChannelDefault(n) == "new_record_channel"

\* listen_channel, lines 118, 141 and 165.
Channel(n) ==
    CASE n = 1 -> "new_record_channel"
      [] n = 2 -> "quote_request_channel"
      [] OTHER -> "contact_submission_channel"

\* instance_name, lines 117, 140 and 164.
InstanceName(n) ==
    CASE n = 1 -> "Instance-1" [] n = 2 -> "Instance-2" [] OTHER -> "Instance-3"

\* Variant of Config that reads the discrete variables whatever DATABASE_URL is.
ConfigKeepsBoth(e, n) ==
    [connection_string |-> getenv(e, DbUrl(n)),
     pg_host |-> getenv(e, "PGHOST" \o Suffix(n)),
     pg_database |-> getenv(e, "PGDATABASE" \o Suffix(n)),
     pg_user |-> getenv(e, "PGUSER" \o Suffix(n)),
     pg_password |-> getenv(e, "PGPASSWORD" \o Suffix(n)),
     tenant_id |-> getenv(e, "TENANT_ID" \o Suffix(n)),
     client_id |-> getenv(e, "CLIENT_ID" \o Suffix(n)),
     client_secret |-> getenv(e, "CLIENT_SECRET" \o Suffix(n)),
     from_email |-> getenv(e, "FROM_EMAIL" \o Suffix(n)),
     to_email |-> getenv(e, "TO_EMAIL" \o Suffix(n)),
     instance_name |-> InstanceName(n),
     listen_channel |-> Channel(n)]

\* InstanceConfig(...), lines 107-119, 130-142 and 154-166.
Config(e, n) ==
    LET url == getenv(e, DbUrl(n))
        pg(b) == IF url # Null THEN Null ELSE getenv(e, b \o Suffix(n))
    IN [connection_string |-> url,
        pg_host |-> pg("PGHOST"),
        pg_database |-> pg("PGDATABASE"),
        pg_user |-> pg("PGUSER"),
        pg_password |-> pg("PGPASSWORD"),
        tenant_id |-> getenv(e, "TENANT_ID" \o Suffix(n)),
        client_id |-> getenv(e, "CLIENT_ID" \o Suffix(n)),
        client_secret |-> getenv(e, "CLIENT_SECRET" \o Suffix(n)),
        from_email |-> getenv(e, "FROM_EMAIL" \o Suffix(n)),
        to_email |-> getenv(e, "TO_EMAIL" \o Suffix(n)),
        instance_name |-> InstanceName(n),
        listen_channel |-> Channel(n)]

\* not missing_N and (db_url_N or not missing_db_N), lines 128 and 152.
Complete(e, n) ==
    /\ Missing(e, InstanceVars(n)) = <<>>
    /\ (DbUrl(n) \in e \/ Missing(e, InstanceDbVars(n)) = <<>>)

Raised(names) == [status |-> "raised", missing |-> names, configs |-> <<>>]

\* Variant of load_instance_configs that looks at instance 3 only when
\* instance 2 was loaded.
load_instance_configs_chained(e) ==
    IF Missing(e, InstanceVars(1)) # <<>>
    THEN Raised(Missing(e, InstanceVars(1)))
    ELSE IF DbUrl(1) \notin e /\ Missing(e, InstanceDbVars(1)) # <<>>
    THEN Raised(Missing(e, InstanceDbVars(1)))
    ELSE [status |-> "ok", missing |-> <<>>,
          configs |-> <<Config(e, 1)>>
                      \o (IF Complete(e, 2)
                          THEN <<Config(e, 2)>>
                               \o (IF Complete(e, 3) THEN <<Config(e, 3)>> ELSE <<>>)
                          ELSE <<>>)]

\* load_instance_configs, lines 87-178: RuntimeError with the missing names of
\* instance 1, or the list of configs.
load_instance_configs(e) ==
    IF Missing(e, InstanceVars(1)) # <<>>
    THEN Raised(Missing(e, InstanceVars(1)))
    ELSE IF DbUrl(1) \notin e /\ Missing(e, InstanceDbVars(1)) # <<>>
    THEN Raised(Missing(e, InstanceDbVars(1)))
    ELSE [status |-> "ok", missing |-> <<>>,
          configs |-> <<Config(e, 1)>>
                      \o (IF Complete(e, 2) THEN <<Config(e, 2)>> ELSE <<>>)
                      \o (IF Complete(e, 3) THEN <<Config(e, 3)>> ELSE <<>>)]

\* main() up to the end of its for loop over configs, lines 609-632: the
\* loader's result, and the instances a worker was submitted for.
NotLoaded == [load |-> [status |-> "pending", missing |-> <<>>, configs |-> <<>>],
              submitted |-> {}]
MainResult(e) ==
    LET r == load_instance_configs(e) IN
    [load |-> r, submitted |-> {r.configs[i].instance_name : i \in DOMAIN r.configs}]

\* An environment with every variable of instances 1 and 2.
TwoInstances == SlotNames(1) \cup SlotNames(2)

\* The sets of at most k elements of S.
RECURSIVE AtMost(_, _)
AtMost(S, k) ==
    IF k = 0 THEN {{}}
    ELSE LET smaller == AtMost(S, k - 1)
         IN  smaller \cup {u \cup {x} : u \in smaller, x \in S}

\* The environments the loader is run in: all but at most k variables set, at
\* most k set, and instance 1 complete with at most k variables of the other
\* instances.
Environs(k) ==
    LET few == AtMost(AllNames, k)
    IN  {AllNames \ u : u \in few}
        \cup few
        \cup {SlotNames(1) \cup u : u \in AtMost(AllNames \ SlotNames(1), k)}

\* ------------------------------------------------------------------ Init
\* main() has loaded the configurations and submitted one worker for each.
Started ==
    /\ cfgTid \in {[t \in Tenants |-> IF t = 1 THEN "tidA" ELSE x] : x \in TenantIds}
    /\ now = 0
    /\ issued = 0
    /\ tokens = <<>>
    /\ lock = 0
    /\ supPc = "sleep"
    /\ supIdx = 1
    /\ fut = [t \in Tenants |-> 0]
    /\ task = [t \in Tenants |-> "running"]
    /\ pc = [t \in Tenants |-> "connect"]
    /\ conn = [t \in Tenants |-> "none"]
    /\ attempts = [t \in Tenants |-> 0]
    /\ delay = [t \in Tenants |-> InitialDelay]
    /\ ev = [t \in Tenants |-> NoEvent]
    /\ rec = [t \in Tenants |-> NoRecord]
    /\ calls = [t \in Tenants |-> <<>>]
    /\ body = [t \in Tenants |-> NoBody]
    /\ bearer = [t \in Tenants |-> NoToken]
    /\ outcome = [t \in Tenants |-> NoOutcome]
    /\ nmsg = NoMessage
    /\ nnorm = NotNormalized
    /\ fetch_conn = [t \in Tenants |-> "none"]

\* main() has loaded the configs of two instances and submitted their workers.
Submitted == environ = TwoInstances /\ loaded = MainResult(TwoInstances)

Init == Started /\ Submitted /\ nrec = <<>>

\* --------------------------------------------------------------- helpers
\* The notification's handling ends (normally, or by the except at line 553):
\* the worker is back in the for loop over conn.notifies().
EndEvent(t) ==
    /\ pc' = [pc EXCEPT ![t] = "subscribed"]
    /\ ev' = [ev EXCEPT ![t] = NoEvent]
    /\ rec' = [rec EXCEPT ![t] = NoRecord]
    /\ calls' = [calls EXCEPT ![t] = <<>>]
    /\ body' = [body EXCEPT ![t] = NoBody]
    /\ bearer' = [bearer EXCEPT ![t] = NoToken]

\* What the worker logs when the handling ends: "completed" when the try block
\* of lines 532-551 ran to its end with send_email returning, "skipped" when
\* the record is missing (line 547), "failed" in the except at line 553; with
\* the notification, the number of mail requests made for it and the request.
Ended(t, how, e, n, r) ==
    outcome' = [outcome EXCEPT ![t] = [how |-> how, ev |-> e, mails |-> n, req |-> r]]

\* The worker has moved on from the notification it handled last.
MovedOn(t) == outcome' = [outcome EXCEPT ![t] = NoOutcome]

\* Variant of ReconnectHandler that leaves the connection as it is.
ReconnectHandlerKeepsOpen(t) ==
    /\ attempts' = [attempts EXCEPT ![t] = attempts[t] + 1]
    /\ pc' = [pc EXCEPT ![t] = "sleep"]
    /\ UNCHANGED <<conn, delay>>

\* Variant of ReconnectHandler for listeners that share one connection.
ReconnectHandlerShared(t) ==
    /\ attempts' = [attempts EXCEPT ![t] = attempts[t] + 1]
    /\ conn' = [u \in Tenants |-> "none"]
    /\ pc' = [pc EXCEPT ![t] = "sleep"]
    /\ UNCHANGED delay

\* except Exception at line 585: count the attempt, close and clear the
\* connection, then sleep.
ReconnectHandler(t) ==
    /\ attempts' = [attempts EXCEPT ![t] = attempts[t] + 1]
    /\ conn' = [conn EXCEPT ![t] = "none"]
    /\ pc' = [pc EXCEPT ![t] = "sleep"]
    /\ UNCHANGED delay

\* ---------------------------------------------------------------- clock
Tick ==
    /\ now + ClockStep <= MaxClock
    /\ now' = now + ClockStep
    /\ UNCHANGED <<cfgTid, normVars, loadVars, fetch_conn, outcome, issued, tokens, lock, supPc, supIdx,
                   fut, task, pc, conn, attempts, delay, ev, rec, calls, body, bearer>>

\* ------------------------------------------------------- worker: connect
\* Variant of Connect without the reset of lines 520-521.
ConnectKeepsDelay(t, result) ==
    /\ Running(t) /\ pc[t] = "connect"
    /\ IF result = "ok"
       THEN /\ conn' = [conn EXCEPT ![t] = "open"]
            /\ pc' = [pc EXCEPT ![t] = "subscribed"]
            /\ UNCHANGED <<attempts, delay>>
       ELSE ReconnectHandler(t)
    /\ UNCHANGED <<cfgTid, normVars, loadVars, fetch_conn, outcome, now, cacheVars, supVars, fut, task, eventVars>>

\* self.connect() and LISTEN, lines 506-521.
Connect(t, result) ==
    /\ Running(t) /\ pc[t] = "connect"
    /\ IF result = "ok"
       THEN /\ conn' = [conn EXCEPT ![t] = "open"]
            /\ attempts' = [attempts EXCEPT ![t] = 0]
            /\ delay' = [delay EXCEPT ![t] = InitialDelay]
            /\ pc' = [pc EXCEPT ![t] = "subscribed"]
       ELSE ReconnectHandler(t)
    /\ UNCHANGED <<cfgTid, normVars, loadVars, fetch_conn, outcome, now, cacheVars, supVars, fut, task, eventVars>>

\* Variant of Wake that gives up once the delay has reached its cap.
WakeGivesUp(t) ==
    /\ Running(t) /\ pc[t] = "sleep"
    /\ IF delay[t] >= DelayCapShort
       THEN /\ task' = [task EXCEPT ![t] = "returned"]
            /\ pc' = [pc EXCEPT ![t] = "done"]
            /\ UNCHANGED <<delay, attempts>>
       ELSE /\ delay' = [delay EXCEPT ![t] = delay[t] + DelayStep]
            /\ attempts' = [attempts EXCEPT ![t] = 0]
            /\ pc' = [pc EXCEPT ![t] = "connect"]
            /\ UNCHANGED task
    /\ UNCHANGED <<cfgTid, normVars, loadVars, fetch_conn, outcome, now, cacheVars, supVars, fut, conn, eventVars>>

\* time.sleep(reconnect_delay) ends, the delay is increased and the outer
\* loop starts over with reconnect_attempts = 0, lines 597-605 and 505-506.
Wake(t) ==
    /\ Running(t) /\ pc[t] = "sleep"
    /\ delay' = [delay EXCEPT ![t] =
         IF attempts[t] >= max_reconnect_attempts
         THEN IF (delay[t] * 3) \div 2 < DelayCapLong
              THEN (delay[t] * 3) \div 2 ELSE DelayCapLong
         ELSE IF delay[t] + DelayStep < DelayCapShort
              THEN delay[t] + DelayStep ELSE DelayCapShort]
    /\ attempts' = [attempts EXCEPT ![t] = 0]
    /\ pc' = [pc EXCEPT ![t] = "connect"]
    /\ UNCHANGED <<cfgTid, normVars, loadVars, fetch_conn, outcome, now, cacheVars, supVars, fut, task, conn, eventVars>>

\* ---------------------------------------------- worker: subscribed loop
\* Variant of Recv without the try block around json.loads: a payload that
\* does not decode reaches the handler of line 572.
RecvDecodeErrorEscapes(t, p) ==
    /\ Running(t) /\ pc[t] = "subscribed"
    /\ IF p.kind # "object"
       THEN /\ pc' = [pc EXCEPT ![t] = "pause"]
            /\ Ended(t, "failed", p, 0, NoRequest)
            /\ UNCHANGED eventVars
       ELSE IF IsReference(p)
       THEN /\ pc' = [pc EXCEPT ![t] = "fetch"]
            /\ ev' = [ev EXCEPT ![t] = p]
            /\ calls' = [calls EXCEPT ![t] = <<>>]
            /\ MovedOn(t)
            /\ UNCHANGED <<rec, body, bearer>>
       ELSE /\ pc' = [pc EXCEPT ![t] = "send"]
            /\ ev' = [ev EXCEPT ![t] = p]
            /\ rec' = [rec EXCEPT ![t] = [src |-> "legacy", keys |-> p.keys, id |-> p.id]]
            /\ calls' = [calls EXCEPT ![t] = <<[op |-> "send", src |-> "legacy", id |-> p.id]>>]
            /\ MovedOn(t)
            /\ UNCHANGED <<body, bearer>>
    /\ UNCHANGED <<cfgTid, normVars, loadVars, fetch_conn, now, cacheVars, supVars, fut, task, connVars>>

\* Variant of Recv that takes the next notification while the mail request of
\* the one before is still out.
RecvWhileBusy(t, p) ==
    /\ Running(t) /\ pc[t] \in {"subscribed", "mail_http"}
    /\ IF p.kind # "object"
       THEN /\ EndEvent(t)
            /\ Ended(t, "failed", p, 0, NoRequest)
       ELSE IF IsReference(p)
       THEN /\ pc' = [pc EXCEPT ![t] = "fetch"]
            /\ ev' = [ev EXCEPT ![t] = p]
            /\ calls' = [calls EXCEPT ![t] = <<>>]
            /\ MovedOn(t)
            /\ UNCHANGED <<rec, body, bearer>>
       ELSE /\ pc' = [pc EXCEPT ![t] = "send"]
            /\ ev' = [ev EXCEPT ![t] = p]
            /\ rec' = [rec EXCEPT ![t] = [src |-> "legacy", keys |-> p.keys, id |-> p.id]]
            /\ calls' = [calls EXCEPT ![t] = <<[op |-> "send", src |-> "legacy", id |-> p.id]>>]
            /\ MovedOn(t)
            /\ UNCHANGED <<body, bearer>>
    /\ UNCHANGED <<cfgTid, normVars, loadVars, fetch_conn, now, cacheVars, supVars, fut, task, connVars>>

\* Variant of Recv that drops a notification equal to the one it has just
\* completed.
RecvDeduplicates(t, p) ==
    /\ Running(t) /\ pc[t] = "subscribed"
    /\ IF p.kind # "object"
       THEN /\ EndEvent(t)
            /\ Ended(t, "failed", p, 0, NoRequest)
       ELSE IF outcome[t].how = "completed" /\ outcome[t].ev = p
       THEN /\ EndEvent(t)
            /\ Ended(t, "skipped", p, 0, NoRequest)
       ELSE IF IsReference(p)
       THEN /\ pc' = [pc EXCEPT ![t] = "fetch"]
            /\ ev' = [ev EXCEPT ![t] = p]
            /\ calls' = [calls EXCEPT ![t] = <<>>]
            /\ MovedOn(t)
            /\ UNCHANGED <<rec, body, bearer>>
       ELSE /\ pc' = [pc EXCEPT ![t] = "send"]
            /\ ev' = [ev EXCEPT ![t] = p]
            /\ rec' = [rec EXCEPT ![t] = [src |-> "legacy", keys |-> p.keys, id |-> p.id]]
            /\ calls' = [calls EXCEPT ![t] = <<[op |-> "send", src |-> "legacy", id |-> p.id]>>]
            /\ MovedOn(t)
            /\ UNCHANGED <<body, bearer>>
    /\ UNCHANGED <<cfgTid, normVars, loadVars, fetch_conn, now, cacheVars, supVars, fut, task, connVars>>

\* for notify in self.conn.notifies(): json.loads and the dispatch on the
\* payload's shape, lines 529-551.  A payload that does not decode, or that is
\* not an object, raises and is dropped by the except at line 553.
Recv(t, p) ==
    /\ Running(t) /\ pc[t] = "subscribed"
    /\ IF p.kind # "object"
       THEN /\ EndEvent(t)
            /\ Ended(t, "failed", p, 0, NoRequest)
       ELSE IF IsReference(p)
       THEN /\ pc' = [pc EXCEPT ![t] = "fetch"]
            /\ ev' = [ev EXCEPT ![t] = p]
            /\ calls' = [calls EXCEPT ![t] = <<>>]
            /\ MovedOn(t)
            /\ UNCHANGED <<rec, body, bearer>>
       ELSE /\ pc' = [pc EXCEPT ![t] = "send"]
            /\ ev' = [ev EXCEPT ![t] = p]
            /\ rec' = [rec EXCEPT ![t] = [src |-> "legacy", keys |-> p.keys, id |-> p.id]]
            /\ calls' = [calls EXCEPT ![t] = <<[op |-> "send", src |-> "legacy", id |-> p.id]>>]
            /\ MovedOn(t)
            /\ UNCHANGED <<body, bearer>>
    /\ UNCHANGED <<cfgTid, normVars, loadVars, fetch_conn, now, cacheVars, supVars, fut, task, connVars>>

\* fetch_conn = psycopg.connect(...), lines 402-413: the resolver's own
\* connection, opened for this call; when connect raises, the except at line
\* 447 finds no fetch_conn among the locals and returns None.
FetchOpen(t, result) ==
    /\ Running(t) /\ pc[t] = "fetch" /\ fetch_conn[t] = "none"
    /\ IF result = "ok"
       THEN /\ fetch_conn' = [fetch_conn EXCEPT ![t] = "open"]
            /\ UNCHANGED <<pc, eventVars, outcome>>
       ELSE /\ EndEvent(t)
            /\ Ended(t, "skipped", ev[t], 0, NoRequest)
            /\ UNCHANGED fetch_conn
    /\ UNCHANGED <<cfgTid, normVars, loadVars, now, cacheVars, supVars, fut, task, connVars>>

\* Variant of Fetch without its except branch: an exception of the query
\* reaches the handler of line 553 in the worker loop.
FetchErrorEscapes(t, res) ==
    /\ Running(t) /\ pc[t] = "fetch" /\ fetch_conn[t] = "open"
    /\ fetch_conn' = [fetch_conn EXCEPT ![t] = "none"]
    /\ LET call == [op |-> "fetch", src |-> "db", id |-> ev[t].id] IN
       IF res = "found"
       THEN /\ rec' = [rec EXCEPT ![t] = [src |-> "resolved", keys |-> PayloadKeys, id |-> ev[t].id]]
            /\ calls' = [calls EXCEPT ![t] =
                 <<call, [op |-> "send", src |-> "resolved", id |-> ev[t].id]>>]
            /\ pc' = [pc EXCEPT ![t] = "send"]
            /\ UNCHANGED <<ev, body, bearer, outcome>>
       ELSE /\ EndEvent(t)
            /\ Ended(t, IF res = "error" THEN "failed" ELSE "skipped", ev[t], 0, NoRequest)
    /\ UNCHANGED <<cfgTid, normVars, loadVars, now, cacheVars, supVars, fut, task, connVars>>

\* Variant of Fetch whose except branch returns without closing fetch_conn.
FetchLeaksOnError(t, res) ==
    /\ Running(t) /\ pc[t] = "fetch" /\ fetch_conn[t] = "open"
    /\ fetch_conn' = IF res = "error" THEN fetch_conn
                     ELSE [fetch_conn EXCEPT ![t] = "none"]
    /\ LET call == [op |-> "fetch", src |-> "db", id |-> ev[t].id] IN
       IF res = "found"
       THEN /\ rec' = [rec EXCEPT ![t] = [src |-> "resolved", keys |-> PayloadKeys, id |-> ev[t].id]]
            /\ calls' = [calls EXCEPT ![t] =
                 <<call, [op |-> "send", src |-> "resolved", id |-> ev[t].id]>>]
            /\ pc' = [pc EXCEPT ![t] = "send"]
            /\ UNCHANGED <<ev, body, bearer, outcome>>
       ELSE /\ EndEvent(t)
            /\ Ended(t, "skipped", ev[t], 0, NoRequest)
    /\ UNCHANGED <<cfgTid, normVars, loadVars, now, cacheVars, supVars, fut, task, connVars>>

\* Variant of Fetch that runs its query on self.conn and closes it afterwards.
FetchOnSubscription(t, res) ==
    /\ Running(t) /\ pc[t] = "fetch" /\ fetch_conn[t] = "open"
    /\ fetch_conn' = [fetch_conn EXCEPT ![t] = "none"]
    /\ conn' = [conn EXCEPT ![t] = "none"]
    /\ LET call == [op |-> "fetch", src |-> "db", id |-> ev[t].id] IN
       IF res = "found"
       THEN /\ rec' = [rec EXCEPT ![t] = [src |-> "resolved", keys |-> PayloadKeys, id |-> ev[t].id]]
            /\ calls' = [calls EXCEPT ![t] =
                 <<call, [op |-> "send", src |-> "resolved", id |-> ev[t].id]>>]
            /\ pc' = [pc EXCEPT ![t] = "send"]
            /\ UNCHANGED <<ev, body, bearer, outcome>>
       ELSE /\ EndEvent(t)
            /\ Ended(t, "skipped", ev[t], 0, NoRequest)
    /\ UNCHANGED <<cfgTid, normVars, loadVars, now, cacheVars, supVars, fut, task, attempts, delay>>

\* Variant of Fetch that hands whatever the resolver returned to send_email.
FetchSendsMissing(t, res) ==
    /\ Running(t) /\ pc[t] = "fetch" /\ fetch_conn[t] = "open"
    /\ fetch_conn' = [fetch_conn EXCEPT ![t] = "none"]
    /\ LET call == [op |-> "fetch", src |-> "db", id |-> ev[t].id] IN
       /\ rec' = [rec EXCEPT ![t] =
            [src |-> "resolved", keys |-> IF res = "found" THEN PayloadKeys ELSE {},
             id |-> ev[t].id]]
       /\ calls' = [calls EXCEPT ![t] =
            <<call, [op |-> "send", src |-> "resolved", id |-> ev[t].id]>>]
       /\ pc' = [pc EXCEPT ![t] = "send"]
       /\ UNCHANGED <<ev, body, bearer, outcome>>
    /\ UNCHANGED <<cfgTid, normVars, loadVars, now, cacheVars, supVars, fut, task, connVars>>

\* record = self.fetch_full_record(record_id), lines 539-547 and 415-451:
\* the query on fetch_conn gives a row, no row, or an exception; fetch_conn is
\* closed at line 441, 445 or 450.
Fetch(t, res) ==
    /\ Running(t) /\ pc[t] = "fetch" /\ fetch_conn[t] = "open"
    /\ fetch_conn' = [fetch_conn EXCEPT ![t] = "none"]
    /\ LET call == [op |-> "fetch", src |-> "db", id |-> ev[t].id] IN
       IF res = "found"
       THEN /\ rec' = [rec EXCEPT ![t] = [src |-> "resolved", keys |-> PayloadKeys, id |-> ev[t].id]]
            /\ calls' = [calls EXCEPT ![t] =
                 <<call, [op |-> "send", src |-> "resolved", id |-> ev[t].id]>>]
            /\ pc' = [pc EXCEPT ![t] = "send"]
            /\ UNCHANGED <<ev, body, bearer, outcome>>
       ELSE /\ EndEvent(t)
            /\ Ended(t, "skipped", ev[t], 0, NoRequest)
    /\ UNCHANGED <<cfgTid, normVars, loadVars, now, cacheVars, supVars, fut, task, connVars>>

\* ----------------------------------------------------------- graph_token
\* with _token_lock: entered, line 194.
TokLock1(t) ==
    /\ Running(t) /\ pc[t] = "send"
    /\ lock = 0
    /\ lock' = t
    /\ pc' = [pc EXCEPT ![t] = "tok_cs1"]
    /\ UNCHANGED <<cfgTid, normVars, loadVars, fetch_conn, outcome, now, issued, tokens, supVars, fut, task, connVars, eventVars>>

\* Variant of TokCheck that posts the token request inside the with block.
TokCheckKeepsLock(t) ==
    /\ Running(t) /\ pc[t] = "tok_cs1"
    /\ IF CacheHit(cfgTid[t])
       THEN /\ bearer' = [bearer EXCEPT ![t] = tokens[cfgTid[t]].val]
            /\ pc' = [pc EXCEPT ![t] = "mail_http"]
            /\ lock' = 0
            /\ UNCHANGED calls
       ELSE /\ pc' = [pc EXCEPT ![t] = "tok_http"]
            /\ calls' = [calls EXCEPT ![t] =
                 Append(@, [op |-> "token_req", src |-> cfgTid[t], id |-> t])]
            /\ UNCHANGED <<bearer, lock>>
    /\ UNCHANGED <<cfgTid, normVars, loadVars, fetch_conn, outcome, now, issued, tokens, supVars, fut, task, connVars, ev, rec, body>>

\* The cache check under the lock, lines 196-203: a usable entry is returned;
\* otherwise the lock is released and the token request is posted.
TokCheck(t) ==
    /\ Running(t) /\ pc[t] = "tok_cs1"
    /\ lock' = 0
    /\ IF CacheHit(cfgTid[t])
       THEN /\ bearer' = [bearer EXCEPT ![t] = tokens[cfgTid[t]].val]
            /\ pc' = [pc EXCEPT ![t] = "mail_http"]
            /\ UNCHANGED calls
       ELSE /\ pc' = [pc EXCEPT ![t] = "tok_http"]
            /\ calls' = [calls EXCEPT ![t] =
                 Append(@, [op |-> "token_req", src |-> cfgTid[t], id |-> t])]
            /\ UNCHANGED bearer
    /\ UNCHANGED <<cfgTid, normVars, loadVars, fetch_conn, outcome, now, issued, tokens, supVars, fut, task, connVars, ev, rec, body>>

\* Variant of TokHttp for a send_email that posts the mail without a token
\* when the token request raises.
TokHttpFailureIgnored(t, resp, life) ==
    /\ Running(t) /\ pc[t] = "tok_http"
    /\ CASE resp = "ok" ->
              /\ issued < MaxIssued
              /\ issued' = issued + 1
              /\ body' = [body EXCEPT ![t] =
                   [status |-> "ok",
                    access_token |-> [ser |-> issued + 1, client |-> t],
                    expires_in |-> life]]
              /\ pc' = [pc EXCEPT ![t] = "tok_lock2"]
              /\ UNCHANGED <<ev, rec, calls, bearer, outcome>>
         [] resp \in {"other_status", "no_token"} ->
              /\ body' = [body EXCEPT ![t] =
                   IF resp = "no_token" THEN NoTokenBody ELSE UnboundBody]
              /\ pc' = [pc EXCEPT ![t] = "tok_lock2"]
              /\ UNCHANGED <<issued, ev, rec, calls, bearer, outcome>>
         [] OTHER ->
              /\ pc' = [pc EXCEPT ![t] = "mail_http"]
              /\ UNCHANGED <<issued, eventVars, outcome>>
    /\ UNCHANGED <<cfgTid, normVars, loadVars, fetch_conn, now, tokens, lock, supVars, fut, task, connVars>>

\* Variant of TokHttp that drops the tenant's cache entry when the request fails.
TokHttpEvictsOnFailure(t, resp, life) ==
    /\ Running(t) /\ pc[t] = "tok_http"
    /\ CASE resp = "ok" ->
              /\ issued < MaxIssued
              /\ issued' = issued + 1
              /\ body' = [body EXCEPT ![t] =
                   [status |-> "ok",
                    access_token |-> [ser |-> issued + 1, client |-> t],
                    expires_in |-> life]]
              /\ pc' = [pc EXCEPT ![t] = "tok_lock2"]
              /\ UNCHANGED <<ev, rec, calls, bearer, tokens, outcome>>
         [] resp \in {"other_status", "no_token"} ->
              /\ body' = [body EXCEPT ![t] =
                   IF resp = "no_token" THEN NoTokenBody ELSE UnboundBody]
              /\ pc' = [pc EXCEPT ![t] = "tok_lock2"]
              /\ tokens' = [x \in DOMAIN tokens \ {cfgTid[t]} |-> tokens[x]]
              /\ UNCHANGED <<issued, ev, rec, calls, bearer, outcome>>
         [] OTHER ->
              /\ EndEvent(t)
              /\ Ended(t, "failed", ev[t], 0, NoRequest)
              /\ tokens' = [x \in DOMAIN tokens \ {cfgTid[t]} |-> tokens[x]]
              /\ UNCHANGED issued
    /\ UNCHANGED <<cfgTid, normVars, loadVars, fetch_conn, now, lock, supVars, fut, task, connVars>>

\* The answer to requests.post(token_url, ...), lines 209-232.  "ok" is status
\* 200 with a body; "http_error" a status raise_for_status raises for;
\* "other_status" a status that is not 200 and for which raise_for_status does
\* not raise, which leaves body unassigned; "no_token" is status 200 with a
\* body that has no access_token; "unreachable" an exception of post.
TokHttp(t, resp, life) ==
    /\ Running(t) /\ pc[t] = "tok_http"
    /\ CASE resp = "ok" ->
              /\ issued < MaxIssued
              /\ issued' = issued + 1
              /\ body' = [body EXCEPT ![t] =
                   [status |-> "ok",
                    access_token |-> [ser |-> issued + 1, client |-> t],
                    expires_in |-> life]]
              /\ pc' = [pc EXCEPT ![t] = "tok_lock2"]
              /\ UNCHANGED <<ev, rec, calls, bearer, outcome>>
         [] resp \in {"other_status", "no_token"} ->
              /\ body' = [body EXCEPT ![t] =
                   IF resp = "no_token" THEN NoTokenBody ELSE UnboundBody]
              /\ pc' = [pc EXCEPT ![t] = "tok_lock2"]
              /\ UNCHANGED <<issued, ev, rec, calls, bearer, outcome>>
         [] OTHER ->
              /\ EndEvent(t)
              /\ Ended(t, "failed", ev[t], 0, NoRequest)
              /\ UNCHANGED issued
    /\ UNCHANGED <<cfgTid, normVars, loadVars, fetch_conn, now, tokens, lock, supVars, fut, task, connVars>>

\* with _token_lock: entered, line 235.
TokLock2(t) ==
    /\ Running(t) /\ pc[t] = "tok_lock2"
    /\ lock = 0
    /\ lock' = t
    /\ pc' = [pc EXCEPT ![t] = "tok_cs2"]
    /\ UNCHANGED <<cfgTid, normVars, loadVars, fetch_conn, outcome, now, issued, tokens, supVars, fut, task, connVars, eventVars>>

\* Variant of TokWrite with a cache that holds a single token.
TokWriteSingleSlot(t) ==
    /\ Running(t) /\ pc[t] = "tok_cs2"
    /\ lock' = 0
    /\ IF body[t].status = "ok"
       THEN /\ tokens' = (cfgTid[t] :> [val |-> body[t].access_token,
                                         exp |-> now + Lifetime(body[t])])
            /\ bearer' = [bearer EXCEPT ![t] = body[t].access_token]
            /\ body' = [body EXCEPT ![t] = NoBody]
            /\ pc' = [pc EXCEPT ![t] = "mail_http"]
            /\ UNCHANGED <<ev, rec, calls, outcome>>
       ELSE /\ EndEvent(t)
            /\ Ended(t, "failed", ev[t], 0, NoRequest)
            /\ UNCHANGED tokens
    /\ UNCHANGED <<cfgTid, normVars, loadVars, fetch_conn, now, issued, supVars, fut, task, connVars>>

\* _tokens[tenant_id] = {...}; return _tokens[tenant_id]["val"], lines 236-241.
\* With body unassigned, or without access_token, the dictionary display
\* raises before the store.
TokWrite(t) ==
    /\ Running(t) /\ pc[t] = "tok_cs2"
    /\ lock' = 0
    /\ IF body[t].status = "ok"
       THEN /\ tokens' = (cfgTid[t] :> [val |-> body[t].access_token,
                                         exp |-> now + Lifetime(body[t])]) @@ tokens
            /\ bearer' = [bearer EXCEPT ![t] = body[t].access_token]
            /\ body' = [body EXCEPT ![t] = NoBody]
            /\ pc' = [pc EXCEPT ![t] = "mail_http"]
            /\ UNCHANGED <<ev, rec, calls, outcome>>
       ELSE /\ EndEvent(t)
            /\ Ended(t, "failed", ev[t], 0, NoRequest)
            /\ UNCHANGED tokens
    /\ UNCHANGED <<cfgTid, normVars, loadVars, fetch_conn, now, issued, supVars, fut, task, connVars>>

\* ------------------------------------------------------------ send_email
\* sendmail_url, headers and payload, lines 367-379.
MailRequest(t) ==
    [sender |-> FromEmail(t), to |-> ToEmail(t), bearer |-> bearer[t],
     subject |-> HeaderOf(Classify(rec[t].keys))]

\* Variant of MailHttp without the try block of lines 530-557: an exception
\* of post reaches the handler of line 572, which finds a connection keyword
\* in its message.
MailHttpErrorEscapes(t, status) ==
    /\ Running(t) /\ pc[t] = "mail_http"
    /\ ev' = [ev EXCEPT ![t] = NoEvent]
    /\ rec' = [rec EXCEPT ![t] = NoRecord]
    /\ calls' = [calls EXCEPT ![t] = <<>>]
    /\ body' = [body EXCEPT ![t] = NoBody]
    /\ bearer' = [bearer EXCEPT ![t] = NoToken]
    /\ Ended(t, IF status \in {"202", "other_status"} THEN "completed" ELSE "failed",
             ev[t], 1, MailRequest(t))
    /\ IF status = "unreachable"
       THEN ReconnectHandler(t)
       ELSE pc' = [pc EXCEPT ![t] = "subscribed"] /\ UNCHANGED connVars
    /\ UNCHANGED <<cfgTid, normVars, loadVars, fetch_conn, now, cacheVars, supVars, fut, task>>

\* Variant of MailHttp that posts again after a send that failed.
MailHttpRetries(t, status) ==
    /\ Running(t) /\ pc[t] = "mail_http"
    /\ IF status = "202"
       THEN /\ EndEvent(t)
            /\ Ended(t, "completed", ev[t], 1, MailRequest(t))
       ELSE /\ calls' = [calls EXCEPT ![t] =
                 Append(@, [op |-> "mail", src |-> "retry", id |-> t])]
            /\ UNCHANGED <<pc, ev, rec, body, bearer, outcome>>
    /\ UNCHANGED <<cfgTid, normVars, loadVars, fetch_conn, now, cacheVars, supVars, fut, task, connVars>>

\* Variant of MailHttp that reads one module-level sender and recipient.
MailHttpOneMailbox(t, status) ==
    /\ Running(t) /\ pc[t] = "mail_http"
    /\ EndEvent(t)
    /\ Ended(t, IF status \in {"202", "other_status"} THEN "completed" ELSE "failed",
             ev[t], 1,
             [MailRequest(t) EXCEPT !.sender = FromEmail(1), !.to = ToEmail(1)])
    /\ UNCHANGED <<cfgTid, normVars, loadVars, fetch_conn, now, cacheVars, supVars, fut, task, connVars>>

\* requests.post(sendmail_url, ...) and its answer, lines 381-398.  "202" is
\* the success status; "error_status" a status raise_for_status raises for;
\* "other_status" a status that is not 202 and for which raise_for_status does
\* not raise, so that send_email returns; "unreachable" an exception of post.
\* Whatever the outcome, the for loop goes on with the next notification.
MailHttp(t, status) ==
    /\ Running(t) /\ pc[t] = "mail_http"
    /\ EndEvent(t)
    /\ Ended(t, IF status \in {"202", "other_status"} THEN "completed" ELSE "failed",
             ev[t], 1, MailRequest(t))
    /\ UNCHANGED <<cfgTid, normVars, loadVars, fetch_conn, now, cacheVars, supVars, fut, task, connVars>>

\* ------------------------------------------- worker: loop-level failures
\* Variant of LoopError that sends every exception to the reconnect handler.
LoopErrorAlwaysReconnects(t, keyword) ==
    /\ Running(t) /\ pc[t] = "subscribed"
    /\ ReconnectHandler(t)
    /\ MovedOn(t)
    /\ UNCHANGED <<cfgTid, normVars, loadVars, fetch_conn, now, cacheVars, supVars, fut, task, eventVars>>

\* An exception of conn.notifies() or of the heartbeat query, caught at line
\* 572: with a connection keyword in its message it is re-raised into the
\* reconnect handler, otherwise the worker sleeps 5 s and stays in the loop.
LoopError(t, keyword) ==
    /\ Running(t) /\ pc[t] = "subscribed"
    /\ IF keyword
       THEN ReconnectHandler(t)
       ELSE /\ pc' = [pc EXCEPT ![t] = "pause"]
            /\ UNCHANGED connVars
    /\ MovedOn(t)
    /\ UNCHANGED <<cfgTid, normVars, loadVars, fetch_conn, now, cacheVars, supVars, fut, task, eventVars>>

\* time.sleep(5) ends, line 580.
Resume(t) ==
    /\ Running(t) /\ pc[t] = "pause"
    /\ pc' = [pc EXCEPT ![t] = "subscribed"]
    /\ UNCHANGED <<cfgTid, normVars, loadVars, fetch_conn, outcome, now, cacheVars, supVars, fut, task, connVars, eventVars>>

\* ------------------------------------------------------ task termination
\* The worker's frame is gone: its locals are cleared, a lock held by a with
\* block is released.  The listener's connection is not closed.
Terminate(t, how) ==
    /\ task' = [task EXCEPT ![t] = how]
    /\ pc' = [pc EXCEPT ![t] = "done"]
    /\ lock' = IF lock = t THEN 0 ELSE lock
    /\ attempts' = [attempts EXCEPT ![t] = 0]
    /\ delay' = [delay EXCEPT ![t] = InitialDelay]
    /\ ev' = [ev EXCEPT ![t] = NoEvent]
    /\ rec' = [rec EXCEPT ![t] = NoRecord]
    /\ calls' = [calls EXCEPT ![t] = <<>>]
    /\ body' = [body EXCEPT ![t] = NoBody]
    /\ bearer' = [bearer EXCEPT ![t] = NoToken]
    /\ MovedOn(t)
    /\ fetch_conn' = [fetch_conn EXCEPT ![t] = "none"]
    /\ UNCHANGED <<cfgTid, normVars, loadVars, now, issued, tokens, supVars, fut, conn>>

\* except KeyboardInterrupt: return, lines 569-571 and 582-584.
TaskReturn(t) ==
    /\ Running(t) /\ pc[t] # "sleep"
    /\ fut[t] < MaxRestarts
    /\ Terminate(t, "returned")

\* An exception raised in the handler of lines 585-605, which no try block
\* covers, leaves listen_and_process.
TaskRaise(t) ==
    /\ Running(t) /\ pc[t] = "sleep"
    /\ fut[t] < MaxRestarts
    /\ Terminate(t, "raised")

\* ------------------------------------------------------------ supervisor
\* time.sleep(30) ends and the for loop over list(futures.items()) starts,
\* lines 636-640.
SupWake ==
    /\ supPc = "sleep"
    /\ supPc' = "poll"
    /\ supIdx' = 1
    /\ UNCHANGED <<cfgTid, normVars, loadVars, fetch_conn, outcome, now, cacheVars, fut, task, pc, connVars, eventVars>>

\* Variant of Restart in which main() connects and subscribes before it
\* submits listen_and_process.
RestartWithConnection(t) ==
    /\ fut' = [fut EXCEPT ![t] = fut[t] + 1]
    /\ task' = [task EXCEPT ![t] = "running"]
    /\ pc' = [pc EXCEPT ![t] = "subscribed"]
    /\ conn' = [conn EXCEPT ![t] = "open"]
    /\ attempts' = [attempts EXCEPT ![t] = 0]
    /\ delay' = [delay EXCEPT ![t] = InitialDelay]

\* listener = DatabaseListener(config); executor.submit(...), lines 651-654.
Restart(t) ==
    /\ fut' = [fut EXCEPT ![t] = fut[t] + 1]
    /\ task' = [task EXCEPT ![t] = "running"]
    /\ pc' = [pc EXCEPT ![t] = "connect"]
    /\ conn' = [conn EXCEPT ![t] = "none"]
    /\ attempts' = [attempts EXCEPT ![t] = 0]
    /\ delay' = [delay EXCEPT ![t] = InitialDelay]

\* Variant of SupCheck that restarts only a task that raised.
SupCheckFailedOnly ==
    /\ supPc = "poll"
    /\ IF task[supIdx] = "raised"
       THEN Restart(supIdx)
       ELSE UNCHANGED <<fut, task, pc, connVars>>
    /\ IF supIdx = LastTenant
       THEN supPc' = "sleep" /\ supIdx' = 1
       ELSE supPc' = "poll" /\ supIdx' = supIdx + 1
    /\ UNCHANGED <<cfgTid, normVars, loadVars, fetch_conn, outcome, now, cacheVars, eventVars>>

\* Variant of SupCheck that resubmits every listener when one is done.
SupCheckRestartAll ==
    /\ supPc = "poll"
    /\ IF Done(supIdx)
       THEN /\ fut' = [t \in Tenants |-> fut[t] + 1]
            /\ task' = [t \in Tenants |-> "running"]
            /\ pc' = [t \in Tenants |-> "connect"]
            /\ conn' = [t \in Tenants |-> "none"]
            /\ attempts' = [t \in Tenants |-> 0]
            /\ delay' = [t \in Tenants |-> InitialDelay]
       ELSE UNCHANGED <<fut, task, pc, connVars>>
    /\ IF supIdx = LastTenant
       THEN supPc' = "sleep" /\ supIdx' = 1
       ELSE supPc' = "poll" /\ supIdx' = supIdx + 1
    /\ UNCHANGED <<cfgTid, normVars, loadVars, fetch_conn, outcome, now, cacheVars, eventVars>>

\* One iteration of the for loop, lines 640-655: a future that is done is
\* replaced, any other is left alone.
SupCheck ==
    /\ supPc = "poll"
    /\ IF Done(supIdx)
       THEN Restart(supIdx)
       ELSE UNCHANGED <<fut, task, pc, connVars>>
    /\ IF supIdx = LastTenant
       THEN supPc' = "sleep" /\ supIdx' = 1
       ELSE supPc' = "poll" /\ supIdx' = supIdx + 1
    /\ UNCHANGED <<cfgTid, normVars, loadVars, fetch_conn, outcome, now, cacheVars, eventVars>>

\* KeyboardInterrupt in main(), lines 657-659.
SupInterrupt ==
    /\ supPc \in {"sleep", "poll"}
    /\ supPc' = "stopped"
    /\ UNCHANGED <<cfgTid, normVars, loadVars, fetch_conn, outcome, now, cacheVars, supIdx, fut, task, pc, connVars, eventVars>>

\* main() from its start to the supervision loop, lines 609-634: the configs
\* are loaded and a worker is submitted for each; the RuntimeError of
\* load_instance_configs is not caught and ends main().
MainStart ==
    /\ loaded = NotLoaded
    /\ loaded' = MainResult(environ)
    /\ supPc' = IF loaded'.load.status = "ok" THEN "sleep" ELSE "aborted"
    /\ task' = [t \in Tenants |->
                  IF InstanceName(t) \in loaded'.submitted THEN "running" ELSE task[t]]
    /\ pc' = [t \in Tenants |->
                IF InstanceName(t) \in loaded'.submitted THEN "connect" ELSE pc[t]]
    /\ UNCHANGED <<cfgTid, normVars, environ, fetch_conn, outcome, now, cacheVars, supIdx, fut, connVars, eventVars>>

\* The with block of line 620 is left: ThreadPoolExecutor.__exit__ calls
\* shutdown(wait=True), which joins the worker threads, so main() returns only
\* when every worker's listen_and_process has ended.
MainReturn ==
    /\ supPc = "stopped"
    /\ \A t \in Tenants : Done(t)
    /\ supPc' = "returned"
    /\ UNCHANGED <<cfgTid, normVars, loadVars, fetch_conn, outcome, now, cacheVars, supIdx, fut, task, pc, connVars, eventVars>>

\* ------------------------------------------------------------------ Next
TokenResponses == {"ok", "http_error", "other_status", "no_token", "unreachable"}
MailStatuses == {"202", "error_status", "other_status", "unreachable"}

Next ==
    \/ Tick
    \/ \E t \in Tenants, o \in {"ok", "refused", "broken"} : Connect(t, o)
    \/ \E t \in Tenants : Wake(t)
    \/ \E t \in Tenants, p \in Payloads : Recv(t, p)
    \/ \E t \in Tenants, o \in {"ok", "refused"} : FetchOpen(t, o)
    \/ \E t \in Tenants, r \in {"found", "notfound", "error"} : Fetch(t, r)
    \/ \E t \in Tenants : TokLock1(t)
    \/ \E t \in Tenants : TokCheck(t)
    \/ \E t \in Tenants, r \in TokenResponses, l \in {NoLifetime, ShortLifetime} :
          TokHttp(t, r, l)
    \/ \E t \in Tenants : TokLock2(t)
    \/ \E t \in Tenants : TokWrite(t)
    \/ \E t \in Tenants, s \in MailStatuses : MailHttp(t, s)
    \/ \E t \in Tenants, k \in BOOLEAN : LoopError(t, k)
    \/ \E t \in Tenants : Resume(t)
    \/ \E t \in Tenants : TaskReturn(t)
    \/ \E t \in Tenants : TaskRaise(t)
    \/ SupWake
    \/ SupCheck
    \/ SupInterrupt
    \/ MainReturn
    \/ MainStart

Spec == Init /\ [][Next]_vars

\* ------------------------------------------------------------- scenarios
\* The same actions under narrower environments, each small enough to be
\* explored exhaustively.

\* Supervision: workers connect, lose their connection and terminate; no
\* notification arrives.
SupNext ==
    \/ \E t \in Tenants, o \in {"ok", "refused", "broken"} : Connect(t, o)
    \/ \E t \in Tenants : Wake(t)
    \/ \E t \in Tenants, k \in BOOLEAN : LoopError(t, k)
    \/ \E t \in Tenants : Resume(t)
    \/ \E t \in Tenants : TaskReturn(t)
    \/ \E t \in Tenants : TaskRaise(t)
    \/ SupWake
    \/ SupCheck
    \/ SupInterrupt

SupSpec == Init /\ [][SupNext]_vars

\* Shutdown: supervision, and main() leaving its with block.  Every step of
\* the program that can be taken is taken in the end: a sleep ends, a connect
\* call returns or raises, the join of the executor returns once the workers
\* have ended.  Nothing makes a worker's listen_and_process end.
ShutNext ==
    \/ SupNext
    \/ MainReturn

ShutSpec ==
    /\ Init /\ [][ShutNext]_vars
    /\ WF_vars(MainReturn)
    /\ \A t \in Tenants :
         /\ WF_vars(Wake(t))
         /\ WF_vars(Resume(t))
         /\ WF_vars(\E o \in {"ok", "refused", "broken"} : Connect(t, o))

\* Token cache: both workers stay subscribed and every notification is a
\* legacy record, so every notification leads to a call of graph_token; the
\* clock runs and the identity provider answers in every way.
LegacyPayload == [kind |-> "object", keys |-> {"name"}, id |-> 0]

TokNext ==
    \/ Tick
    \/ \E t \in Tenants : Connect(t, "ok")
    \/ \E t \in Tenants : Recv(t, LegacyPayload)
    \/ \E t \in Tenants : TokLock1(t)
    \/ \E t \in Tenants : TokCheck(t)
    \/ \E t \in Tenants, r \in TokenResponses, l \in {NoLifetime, ShortLifetime} :
          TokHttp(t, r, l)
    \/ \E t \in Tenants : TokLock2(t)
    \/ \E t \in Tenants : TokWrite(t)
    \/ \E t \in Tenants, s \in MailStatuses : MailHttp(t, s)

TokSpec == Init /\ [][TokNext]_vars

\* Event handling: every payload shape and every resolver outcome; the clock
\* stands still and the identity provider reports no lifetime.
EvtNext ==
    \/ \E t \in Tenants : Connect(t, "ok")
    \/ \E t \in Tenants, p \in Payloads : Recv(t, p)
    \/ \E t \in Tenants, o \in {"ok", "refused"} : FetchOpen(t, o)
    \/ \E t \in Tenants, r \in {"found", "notfound", "error"} : Fetch(t, r)
    \/ \E t \in Tenants : TokLock1(t)
    \/ \E t \in Tenants : TokCheck(t)
    \/ \E t \in Tenants, r \in TokenResponses : TokHttp(t, r, NoLifetime)
    \/ \E t \in Tenants : TokLock2(t)
    \/ \E t \in Tenants : TokWrite(t)
    \/ \E t \in Tenants, s \in MailStatuses : MailHttp(t, s)

EvtSpec == Init /\ [][EvtNext]_vars

\* Workers side by side: every worker step, with lost connections, failing
\* notifications and task termination, and the supervisor restarting workers;
\* a payload that does not decode and a reference, answers that succeed and
\* requests that do not get through; an exception of the loop is one that
\* makes the worker reconnect.
RefPayload == [kind |-> "object", keys |-> {"id"}, id |-> 1]

WorkNext ==
    \/ \E t \in Tenants : Connect(t, "ok")
    \/ \E t \in Tenants : Wake(t)
    \/ \E t \in Tenants, p \in {[kind |-> "malformed"], RefPayload} : Recv(t, p)
    \/ \E t \in Tenants : FetchOpen(t, "ok")
    \/ \E t \in Tenants, r \in {"found", "error"} : Fetch(t, r)
    \/ \E t \in Tenants : TokLock1(t)
    \/ \E t \in Tenants : TokCheck(t)
    \/ \E t \in Tenants, r \in {"ok", "unreachable"} : TokHttp(t, r, NoLifetime)
    \/ \E t \in Tenants : TokLock2(t)
    \/ \E t \in Tenants : TokWrite(t)
    \/ \E t \in Tenants, s \in {"202", "unreachable"} : MailHttp(t, s)
    \/ \E t \in Tenants : LoopError(t, TRUE)
    \/ \E t \in Tenants : TaskReturn(t)
    \/ \E t \in Tenants : TaskRaise(t)
    \/ SupWake
    \/ SupCheck

WorkSpec == Init /\ [][WorkNext]_vars

\* Connections: workers connect, fail to connect, lose their connection and
\* reconnect; the only notification is one that does not decode; no task
\* terminates.  time.sleep returns, so a sleeping worker wakes up.
ConnNext ==
    \/ \E t \in Tenants, o \in {"ok", "refused", "broken"} : Connect(t, o)
    \/ \E t \in Tenants : Wake(t)
    \/ \E t \in Tenants : Recv(t, [kind |-> "malformed"])
    \/ \E t \in Tenants, k \in BOOLEAN : LoopError(t, k)
    \/ \E t \in Tenants : Resume(t)

ConnSpec == Init /\ [][ConnNext]_vars /\ \A t \in Tenants : WF_vars(Wake(t))

\* Startup: main() is called in an environment of Environs(MaxUnset); nothing
\* is loaded and no worker is submitted yet.
LoadInit ==
    /\ environ \in Environs(MaxUnset)
    /\ loaded = NotLoaded
    /\ cfgTid = [t \in Tenants |-> "tidA"]
    /\ now = 0
    /\ issued = 0
    /\ tokens = <<>>
    /\ lock = 0
    /\ supPc = "start"
    /\ supIdx = 1
    /\ fut = [t \in Tenants |-> 0]
    /\ task = [t \in Tenants |-> "unsubmitted"]
    /\ pc = [t \in Tenants |-> "unsubmitted"]
    /\ conn = [t \in Tenants |-> "none"]
    /\ attempts = [t \in Tenants |-> 0]
    /\ delay = [t \in Tenants |-> InitialDelay]
    /\ ev = [t \in Tenants |-> NoEvent]
    /\ rec = [t \in Tenants |-> NoRecord]
    /\ calls = [t \in Tenants |-> <<>>]
    /\ body = [t \in Tenants |-> NoBody]
    /\ bearer = [t \in Tenants |-> NoToken]
    /\ outcome = [t \in Tenants |-> NoOutcome]
    /\ nrec = <<>>
    /\ nmsg = NoMessage
    /\ nnorm = NotNormalized
    /\ fetch_conn = [t \in Tenants |-> "none"]

LoadNext == MainStart

LoadSpec == LoadInit /\ [][LoadNext]_vars

\* send_email on its own, up to the message it builds: called once with any
\* record over NormKeys.
NormInit == Started /\ Submitted /\ nrec \in Records

\* send_email(record), called with the resolver's record when the resolver
\* has normalized it, lines 541-544.
BuildMessage ==
    /\ nmsg = NoMessage
    /\ nmsg' = Message(IF nnorm.done THEN nnorm.val ELSE nrec)
    /\ UNCHANGED <<cfgTid, now, cacheVars, supVars, fut, task, pc, connVars,
                   eventVars, outcome, nrec, nnorm, fetch_conn, loadVars>>

\* record = self._normalize_contact_submission_fields(record) in
\* fetch_full_record, lines 437-439: the row is replaced by its normalized
\* copy; the row itself is not written to.
ResolverNormalize ==
    /\ nmsg = NoMessage /\ ~nnorm.done
    /\ nnorm' = [done |-> TRUE, val |-> NormalizeContact(nrec)]
    /\ UNCHANGED <<cfgTid, now, cacheVars, supVars, fut, task, pc, connVars,
                   eventVars, outcome, nrec, nmsg, fetch_conn, loadVars>>

NormNext == BuildMessage

NormSpec == NormInit /\ [][NormNext]_vars

\* The resolver and send_email one after the other: a row of any shape is
\* normalized by the resolver, or not, and then formatted.
RenormNext ==
    \/ ResolverNormalize
    \/ BuildMessage

RenormSpec == NormInit /\ [][RenormNext]_vars

\* ----------------------------------------------------------------- claims
\* One iteration of the supervisor's for loop has run.
PollStep ==
    /\ supPc = "poll"
    /\ supPc' # "stopped"
    /\ <<supPc, supIdx>>' # <<supPc, supIdx>>

\* Everything that belongs to one tenant's worker and its tracked task.
Local(t) == <<pc[t], conn[t], attempts[t], delay[t], ev[t], rec[t], calls[t], outcome[t],
              fetch_conn[t],
              body[t], bearer[t], task[t], fut[t]>>

\* The cache entry of a tenant id, with a placeholder for an absent key.
EntryOf(tid) == IF tid \in DOMAIN tokens THEN tokens[tid] ELSE [val |-> NoToken, exp |-> -1]

\* Number of token requests made while handling the current notification.
TokenRequests(t) ==
    Cardinality({i \in 1..Len(calls[t]) : calls[t][i].op = "token_req"})

\* The worker leaves the cache check, and leaves the second with block.
CheckStep(t) == pc[t] = "tok_cs1" /\ pc'[t] # "tok_cs1"
WriteStep(t) == pc[t] = "tok_cs2" /\ pc'[t] # "tok_cs2"

\* C1: at a supervision poll, a tenant whose task has terminated (returned or
\* raised) gets a new tracked task running a fresh worker for the same config.
C1_TerminatedTaskReplaced ==
    [][PollStep /\ Done(supIdx) =>
         /\ fut'[supIdx] # fut[supIdx]
         /\ task'[supIdx] = "running"
         /\ pc'[supIdx] = "connect"
         /\ conn'[supIdx] = "none"
         /\ attempts'[supIdx] = 0
         /\ delay'[supIdx] = InitialDelay
         /\ cfgTid' = cfgTid]_vars

\* A tenant's task has been replaced twice and its latest worker is subscribed.
C1_Witness ==
    \E t \in Tenants : fut[t] >= 2 /\ Running(t) /\ pc[t] = "subscribed"

\* C2: a supervision poll leaves the tracked task and the worker of every
\* tenant whose task has not terminated as they are.
C2_RunningTaskUntouched ==
    [][\A b \in Tenants : PollStep /\ Running(b) => Local(b)' = Local(b)]_vars

\* Tenant 1 has been restarted while tenant 2 still runs its first task.
C2_Witness ==
    /\ fut[1] = 1 /\ Running(1)
    /\ fut[2] = 0 /\ Running(2) /\ pc[2] = "subscribed"

\* C3: no step changes the worker state of two tenants, so a failure or the
\* termination of one worker leaves the other's state alone; and the token
\* lock is only ever held by a running worker inside one of its with blocks,
\* so a worker that fails never keeps the others out of the cache.
C3_WorkersIndependent ==
    [][/\ \A a, b \in Tenants :
            a # b => ~(Local(a)' # Local(a) /\ Local(b)' # Local(b))
       /\ (lock' # 0 => /\ task'[lock'] = "running"
                        /\ pc'[lock'] \in {"tok_cs1", "tok_cs2"})]_vars

\* Tenant 1's worker has terminated from the reconnect handler while tenant 2,
\* never restarted, is sending a mail.
C3_Witness ==
    /\ task[1] = "raised"
    /\ fut[2] = 0 /\ pc[2] = "mail_http" /\ conn[2] = "open"

\* C4: a cache check that finds an entry with more than 60 s left returns the
\* cached token at once: no token request, no new token, cache unchanged.
C4_ValidEntryReturned ==
    [][\A t \in Tenants :
         (/\ CheckStep(t)
          /\ cfgTid[t] \in DOMAIN tokens
          /\ tokens[cfgTid[t]].exp - now > 60)
         => /\ pc'[t] = "mail_http"
            /\ bearer'[t] = tokens[cfgTid[t]].val
            /\ calls'[t] = calls[t]
            /\ issued' = issued
            /\ tokens' = tokens]_vars

\* A later call got the cached token without a token request.
C4_Witness ==
    \E t \in Tenants :
        /\ now > 0 /\ pc[t] = "mail_http"
        /\ TokenRequests(t) = 0
        /\ bearer[t] = tokens[cfgTid[t]].val

\* C5: a cache check that finds no entry, or one with 60 s or less left, makes
\* one token request; a 200 answer overwrites the entry with the new token and
\* now + expires_in (3600 without expires_in), and the new token is returned.
C5_RefreshOverwrites ==
    [][\A t \in Tenants :
         /\ (CheckStep(t) /\ ~(/\ cfgTid[t] \in DOMAIN tokens
                               /\ tokens[cfgTid[t]].exp - now > 60))
            => /\ pc'[t] = "tok_http"
               /\ TokenRequests(t)' = TokenRequests(t) + 1
         /\ TokenRequests(t)' <= 1
         /\ (WriteStep(t) /\ body[t].status = "ok")
            => /\ cfgTid[t] \in DOMAIN tokens'
               /\ tokens'[cfgTid[t]].val = body[t].access_token
               /\ tokens'[cfgTid[t]].exp =
                    now + (IF body[t].expires_in = NoLifetime
                           THEN 3600 ELSE body[t].expires_in)
               /\ bearer'[t] = body[t].access_token
               /\ bearer'[t] # EntryOf(cfgTid[t]).val
               /\ pc'[t] = "mail_http"]_vars

\* Tenant 1, alone at work, has replaced its first token by its second.
C5_Witness ==
    /\ cfgTid[1] # cfgTid[2] /\ pc[2] = "connect"
    /\ pc[1] = "mail_http" /\ bearer[1].ser = 2
    /\ tokens[cfgTid[1]].val = bearer[1]

\* A worker is between its cache miss and its write of the new token.
InRefresh(t) == pc[t] \in {"tok_http", "tok_lock2", "tok_cs2"}

\* C6: for one tenant id, at most one caller is between its cache miss and its
\* write of the new token.
C6_OneRefreshPerTenantId ==
    \A a, b \in Tenants :
        (a # b /\ cfgTid[a] = cfgTid[b]) => ~(InRefresh(a) /\ InRefresh(b))

\* C7: a cache entry changes only when a worker configured with that very
\* tenant id stores the token of a 200 answer.
C7_EntriesIndependent ==
    [][\A tid \in TenantIds :
         EntryOf(tid)' # EntryOf(tid) =>
            \E t \in Tenants :
               /\ cfgTid[t] = tid
               /\ WriteStep(t) /\ body[t].status = "ok"]_vars

\* Both tenant ids are cached; tidA has been refreshed twice, tidB's first
\* token is still there and usable.
C7_Witness ==
    /\ DOMAIN tokens = TenantIds
    /\ tokens["tidA"].val.ser = 3
    /\ tokens["tidB"].val.ser = 1
    /\ tokens["tidB"].exp - now > 60

\* C8: a worker whose token request is in flight does not hold the lock, and
\* another worker can then enter the with block and finish its cache check.
C8_LockFreeDuringRequest ==
    \A a \in Tenants :
        pc[a] = "tok_http" =>
            /\ lock # a
            /\ \A b \in Tenants \ {a} :
                  /\ pc[b] = "send" => ENABLED TokLock1(b)
                  /\ pc[b] = "tok_cs1" => ENABLED TokCheck(b)

\* While a request for another tenant id is in flight, a worker holds the lock
\* in front of a usable entry of its own tenant id.
C8_Witness ==
    \E a, b \in Tenants :
        /\ cfgTid[a] # cfgTid[b]
        /\ pc[a] = "tok_http"
        /\ pc[b] = "tok_cs1" /\ lock = b
        /\ CacheHit(cfgTid[b])

\* The token request of t is answered, and not with status 200 and a token.
FailedAnswer(t) ==
    \E r \in TokenResponses \ {"ok"}, l \in {NoLifetime, ShortLifetime} : TokHttp(t, r, l)

\* C9: a token request that fails returns no token and leaves the cache as it
\* is: either the error ends the notification's handling at once, or the
\* worker goes on without a body and the error is raised in the second with
\* block, before the store.
C9_FailedRequestKeepsCache ==
    [][\A t \in Tenants :
         /\ FailedAnswer(t)
            => /\ tokens' = tokens
               /\ bearer'[t] = NoToken
               /\ \/ pc'[t] = "subscribed"
                  \/ pc'[t] = "tok_lock2" /\ body'[t].status # "ok"
         /\ (pc[t] = "tok_lock2" /\ body[t].status # "ok" /\ pc'[t] # pc[t])
            => /\ tokens' = tokens
               /\ pc'[t] = "tok_cs2" /\ body'[t] = body[t]
         /\ (WriteStep(t) /\ body[t].status # "ok")
            => /\ tokens' = tokens
               /\ bearer'[t] = NoToken
               /\ pc'[t] = "subscribed"]_vars

\* A request answered with a status that is neither 200 nor an error is about
\* to fail in the second with block, with an entry of that tenant id cached.
C9_Witness ==
    \E t \in Tenants :
        /\ pc[t] = "tok_cs2" /\ body[t].status = "unbound"
        /\ cfgTid[t] \in DOMAIN tokens

\* C10: a payload whose only key is id is resolved by that id before the
\* notifier is called, with the resolved record; any other object goes to the
\* notifier as it is and the resolver is not called.
C10_ReferenceOrLegacy ==
    \A t \in Tenants :
        ev[t].kind = "object" =>
            IF ev[t].keys = {"id"}
            THEN \/ pc[t] = "fetch" /\ calls[t] = <<>> /\ rec[t] = NoRecord
                 \/ /\ Len(calls[t]) >= 2
                    /\ calls[t][1] = [op |-> "fetch", src |-> "db", id |-> ev[t].id]
                    /\ calls[t][2] = [op |-> "send", src |-> "resolved", id |-> ev[t].id]
                    /\ rec[t].src = "resolved" /\ rec[t].id = ev[t].id
                    /\ \A i \in 2..Len(calls[t]) : calls[t][i].op # "fetch"
            ELSE /\ Len(calls[t]) >= 1
                 /\ calls[t][1] = [op |-> "send", src |-> "legacy", id |-> ev[t].id]
                 /\ rec[t] = [src |-> "legacy", keys |-> ev[t].keys, id |-> ev[t].id]
                 /\ \A i \in 1..Len(calls[t]) : calls[t][i].op # "fetch"

\* One worker is sending a resolved record, the other a legacy record that has
\* an id among its keys.
C10_Witness ==
    \E a, b \in Tenants :
        /\ pc[a] = "send" /\ ev[a].keys = {"id"} /\ rec[a].src = "resolved"
        /\ pc[b] = "send" /\ ev[b].keys = {"id", "name"} /\ rec[b].src = "legacy"
\* The handling of worker t's notification ends in this step.
EndStep(t) ==
    /\ pc[t] \notin {"subscribed", "done"}
    /\ pc'[t] = "subscribed"
    /\ outcome'[t] # NoOutcome

\* C11: when the resolver reports that no row matches, the worker makes no
\* token request and no mail request for that notification, logs the skip,
\* keeps its connection and is back in the loop for the next notification.
C11_MissingRecordSkipped ==
    [][\A t \in Tenants :
         Fetch(t, "notfound") =>
           /\ outcome'[t] = [how |-> "skipped", ev |-> ev[t], mails |-> 0,
                             req |-> NoRequest]
           /\ TokenRequests(t) = 0
           /\ <<issued, tokens, lock>>' = <<issued, tokens, lock>>
           /\ bearer[t] = NoToken
           /\ Running(t)' /\ pc'[t] = "subscribed"
           /\ conn[t] = "open" /\ conn'[t] = "open"
           /\ ev'[t] = NoEvent /\ rec'[t] = NoRecord /\ calls'[t] = <<>>]_vars

\* Tenant 1's worker has skipped a reference to record 1 and is subscribed.
C11_Witness ==
    /\ outcome[1].how = "skipped" /\ outcome[1].mails = 0
    /\ outcome[1].ev = RefPayload
    /\ pc[1] = "subscribed" /\ conn[1] = "open"

\* C12: send_email returns normally when the mail service answers 202 and
\* raises to its caller for an answer with any other status.
C12_Non202Raises ==
    [][\A t \in Tenants : \A s \in {"202", "error_status", "other_status"} :
         MailHttp(t, s) =>
           outcome'[t].how = IF s = "202" THEN "completed" ELSE "failed"]_vars

\* C13: one call of send_email makes one mail request at most, whatever the
\* answer, and once the request has been answered or has failed the worker is
\* done with the notification: it never posts for it again.
C13_OneMailRequestNoRetry ==
    [][\A t \in Tenants :
         /\ outcome'[t].mails <= 1
         /\ (pc[t] = "mail_http" /\ Local(t)' # Local(t)) =>
              /\ outcome'[t].mails = 1 /\ outcome'[t].ev = ev[t]
              /\ outcome'[t].how \in {"completed", "failed"}
              /\ pc'[t] = "subscribed"
              /\ ev'[t] = NoEvent /\ rec'[t] = NoRecord /\ calls'[t] = <<>>
              /\ bearer'[t] = NoToken]_vars

\* Tenant 2's mail request for a legacy record failed; the worker is back in
\* the loop with nothing left of the notification.
C13_Witness ==
    /\ outcome[2].how = "failed" /\ outcome[2].mails = 1
    /\ outcome[2].ev = LegacyPayload
    /\ pc[2] = "subscribed" /\ ev[2] = NoEvent

\* C14: a failure while one notification is handled (payload that does not
\* decode, missing record, token failure, send failure) stays in the event
\* loop: the task keeps running and is not replaced, the worker is subscribed
\* on the connection it had, and the supervisor sees nothing.
C14_EventFailureContained ==
    [][\A t \in Tenants :
         (outcome'[t] # outcome[t] /\ outcome'[t].how \in {"failed", "skipped"}) =>
           /\ Running(t) /\ task' = task /\ fut' = fut
           /\ supVars' = supVars
           /\ pc'[t] = "subscribed"
           /\ conn[t] = "open" /\ connVars' = connVars]_vars

\* Tenant 1's worker, never restarted, has failed on a payload that does not
\* decode and is subscribed, while the supervisor is polling.
C14_Witness ==
    /\ outcome[1].how = "failed" /\ outcome[1].ev = [kind |-> "malformed"]
    /\ task[1] = "running" /\ fut[1] = 0
    /\ pc[1] = "subscribed" /\ conn[1] = "open"
    /\ supPc = "poll"

\* C15: a failure to connect, or a lost connection, never ends the worker:
\* the worker sleeps, every sleep ends in another attempt, and an attempt can
\* succeed, after which the worker is subscribed on an open connection.
C15_ConnectionFailureRetried ==
    /\ [][\A t \in Tenants :
            /\ (pc[t] = "connect" /\ pc'[t] # "connect") =>
                 /\ Running(t)' /\ task' = task /\ supPc' = supPc
                 /\ \/ pc'[t] = "subscribed" /\ conn'[t] = "open"
                    \/ pc'[t] = "sleep" /\ conn'[t] = "none"
            /\ (pc[t] = "subscribed" /\ conn'[t] # conn[t]) =>
                 Running(t)' /\ pc'[t] = "sleep"
            /\ (pc[t] = "sleep" /\ pc'[t] # "sleep") =>
                 Running(t)' /\ pc'[t] = "connect"]_vars
    /\ [](\A t \in Tenants : pc[t] = "connect" => ENABLED Connect(t, "ok"))
    /\ \A t \in Tenants : (pc[t] = "sleep") ~> (pc[t] = "connect")

\* Tenant 1's worker has failed often enough for the delay to reach its cap
\* and is connecting again.
C15_Witness ==
    /\ delay[1] = DelayCapShort
    /\ pc[1] = "connect" /\ task[1] = "running"

C17_ClassificationPriority ==
    nmsg # NoMessage =>
      LET K == DOMAIN nrec
          contact == "inquiry_type" \in K /\ ("first_name" \in K \/ "last_name" \in K)
          quote == "company" \in K /\ "service" \in K
      IN /\ contact => nmsg.subject = "New Contact Submission Received"
         /\ (~contact /\ quote) => nmsg.subject = "New Quote Request Received"
         /\ (~contact /\ ~quote) => nmsg.subject = "New Inquiry Received"

\* A record with the keys of both kinds has been formatted as a contact
\* submission.
C17_Witness ==
    /\ {"inquiry_type", "last_name", "company", "service"} \subseteq DOMAIN nrec
    /\ nmsg # NoMessage /\ nmsg.kind = "contact"

\* C18: for every record over the expected keys, the empty one included,
\* send_email builds a subject and a body: every line shows a value, and a
\* line whose field is missing shows its placeholder.
C18_MessageAlwaysBuilt ==
    /\ nmsg = NoMessage => ENABLED BuildMessage
    /\ nmsg # NoMessage =>
         /\ nmsg.status = "built"
         /\ nmsg.subject \in {HeaderOf(k) : k \in {"contact", "quote", "inquiry"}}
         /\ Len(nmsg.lines) > 0
         /\ \A i \in 1..Len(nmsg.lines) :
              /\ nmsg.lines[i].value # KeyError
              /\ nmsg.lines[i].key \notin DOMAIN LineSource(nrec) =>
                   nmsg.lines[i].value = nmsg.lines[i].default

\* The empty record has been formatted, every line showing its placeholder.
C18_Witness ==
    /\ nrec = <<>>
    /\ nmsg # NoMessage
    /\ \A i \in 1..Len(nmsg.lines) : nmsg.lines[i].value \in {"--", "N/A"}

\* C19: a mail request of tenant T is addressed to T's sender endpoint, names
\* T's recipient and no other, and carries the token graph_token returned,
\* which is the cache's entry for T's tenant id at that moment.
C19_OwnMailboxAndToken ==
    [][\A t \in Tenants :
         /\ (pc'[t] = "mail_http" /\ pc[t] # "mail_http") =>
              /\ cfgTid[t] \in DOMAIN tokens'
              /\ bearer'[t] = tokens'[cfgTid[t]].val
              /\ cfgTid[bearer'[t].client] = cfgTid[t]
         /\ (pc[t] = "mail_http" /\ outcome'[t].mails = 1) =>
              /\ outcome'[t].req.sender = FromEmail(t)
              /\ outcome'[t].req.to = ToEmail(t)
              /\ outcome'[t].req.bearer = bearer[t]
              /\ bearer[t] # NoToken]_vars

\* Tenant 2 has sent a mail from its own mailbox with the token tenant 1
\* fetched for the tenant id they share.
C19_Witness ==
    /\ outcome[2].how = "completed" /\ outcome[2].mails = 1
    /\ outcome[2].req.sender = FromEmail(2) /\ outcome[2].req.to = ToEmail(2)
    /\ outcome[2].req.bearer.client = 1
    /\ cfgTid[1] = cfgTid[2]

C29_ResolverClosesConnection ==
    [][\A t \in Tenants :
         /\ (pc[t] = "fetch" /\ fetch_conn[t] = "open" /\ pc'[t] # "fetch") =>
              fetch_conn'[t] = "none"
         /\ fetch_conn'[t] = "open" => pc'[t] = "fetch"]_vars

\* Tenant 1's resolver call ended without a record and left no connection
\* behind, while tenant 2's resolver is in its call with its connection open.
C29_Witness ==
    /\ outcome[1].how = "skipped" /\ IsReference(outcome[1].ev)
    /\ pc[1] = "subscribed" /\ fetch_conn[1] = "none"
    /\ pc[2] = "fetch" /\ fetch_conn[2] = "open"

\* C30: every resolver call starts without a connection and opens its own;
\* from the notification's arrival to the end of the call the subscription
\* connection is open and no step changes it.
C30_SubscriptionUntouched ==
    [][\A t \in Tenants :
         /\ (pc[t] # "fetch" /\ pc'[t] = "fetch") => fetch_conn'[t] = "none"
         /\ pc[t] = "fetch" => (conn[t] = "open" /\ conn'[t] = conn[t])
         /\ (fetch_conn[t] = "none" /\ fetch_conn'[t] = "open") =>
              (conn[t] = "open" /\ conn'[t] = "open")]_vars

\* Tenant 1's resolver returned a row on its own connection, which is closed
\* again; the subscription connection is still open.
C30_Witness ==
    /\ pc[1] = "send" /\ rec[1].src = "resolved"
    /\ fetch_conn[1] = "none" /\ conn[1] = "open"

\* The third failure in a row since the worker was last connected: the delay
\* starts at InitialDelay and has grown by DelayStep after each of the two
\* failures before.
ThirdFailure(t) == pc[t] = "sleep" /\ delay[t] = InitialDelay + 2 * DelayStep

\* C26: the wait after the third failure in a row ends with the delay
\* multiplied by 1.5 (at most DelayCapLong) and the attempt counter at 0; the
\* waits before it end with the delay increased by DelayStep.
C26_BackoffAfterThreeFailures ==
    [][\A t \in Tenants :
         (pc[t] = "sleep" /\ pc'[t] = "connect") =>
           /\ attempts'[t] = 0
           /\ delay'[t] = IF ThirdFailure(t)
                          THEN (delay[t] * 3) \div 2
                          ELSE IF delay[t] < InitialDelay + 2 * DelayStep
                          THEN delay[t] + DelayStep
                          ELSE delay'[t]]_vars

\* The heartbeat query of lines 559-567 raises: the exception is raised again
\* inside the try block of the loop and reaches the handler of line 572 like
\* any other exception of the loop.
HeartbeatFailure(t, keyword) == LoopError(t, keyword)

\* C27: whatever the heartbeat query fails with, the worker leaves the
\* subscribed loop, its connection is closed and it goes on to connect again.
C27_HeartbeatFailureReconnects ==
    [][\A t \in Tenants, k \in BOOLEAN :
         HeartbeatFailure(t, k) =>
           /\ pc'[t] = "sleep" /\ conn'[t] = "none"
           /\ attempts'[t] = attempts[t] + 1]_vars

\* C28: an exception of the subscribed loop whose message has a connection
\* keyword closes the connection and sends the worker to reconnect; any
\* other one makes the worker pause, with the connection, the attempt
\* counter and the delay unchanged, and the pause ends in the same loop on
\* the same open connection.
C28_LoopErrorClassified ==
    [][\A t \in Tenants :
         /\ LoopError(t, TRUE) =>
              /\ pc'[t] = "sleep" /\ conn[t] = "open" /\ conn'[t] = "none"
         /\ LoopError(t, FALSE) =>
              /\ pc'[t] = "pause"
              /\ conn'[t] = conn[t] /\ conn[t] = "open"
              /\ attempts'[t] = attempts[t] /\ delay'[t] = delay[t]
         /\ pc[t] = "pause" =>
              /\ pc'[t] \in {"pause", "subscribed"}
              /\ conn'[t] = conn[t] /\ conn[t] = "open"
              /\ attempts'[t] = attempts[t] /\ delay'[t] = delay[t]]_vars

\* Tenant 1's worker pauses after an exception without a connection keyword,
\* its connection open; tenant 2's worker, after one with a keyword, sleeps
\* before it reconnects.
C28_Witness ==
    /\ pc[1] = "pause" /\ conn[1] = "open" /\ attempts[1] = 0
    /\ pc[2] = "sleep" /\ conn[2] = "none" /\ attempts[2] = 1 /\ delay[2] = InitialDelay

\* C25: once main() has caught the interrupt no task is submitted any more,
\* and main() returns in the end.
C25_InterruptCompletesShutdown ==
    /\ [][supPc = "stopped" => (fut' = fut /\ supPc' # "poll")]_vars
    /\ (supPc = "stopped") ~> (supPc = "returned")

\* The required variables of tenant 1 that are unset: the five mail
\* variables, and the discrete database variables when DATABASE_URL is unset.
RequiredMissing(e) ==
    (Range(InstanceVars(1)) \ e)
    \cup (IF DbUrl(1) \in e THEN {} ELSE Range(InstanceDbVars(1)) \ e)

\* C21: when a required variable of tenant 1 is unset, load_instance_configs
\* raises an error that names every required variable that is unset, returns
\* no config, and main() submits no worker.
C21_MissingRequiredListed ==
    (loaded # NotLoaded /\ RequiredMissing(environ) # {}) =>
      /\ loaded.load.status = "raised"
      /\ loaded.load.configs = <<>>
      /\ loaded.submitted = {}
      /\ \A t \in Tenants : task[t] = "unsubmitted"
      /\ Range(loaded.load.missing) = RequiredMissing(environ)

\* The variable set of instance n is complete.
HasAll(e, n) ==
    /\ Range(InstanceVars(n)) \subseteq e
    /\ (DbUrl(n) \in e \/ Range(InstanceDbVars(n)) \subseteq e)

\* The labels of the configs returned, in the order of the list.
Labels == [i \in DOMAIN loaded.load.configs |-> loaded.load.configs[i].instance_name]

\* C22: when tenant 1 is complete the loader returns a list: tenant 1 first,
\* then tenant 2 exactly when its variable set is complete, then tenant 3
\* exactly when its own variable set is complete, whatever tenant 2's is.
C22_OptionalTenantsIndependent ==
    (loaded # NotLoaded /\ HasAll(environ, 1)) =>
      /\ loaded.load.status = "ok"
      /\ Labels = <<"Instance-1">>
                  \o (IF HasAll(environ, 2) THEN <<"Instance-2">> ELSE <<>>)
                  \o (IF HasAll(environ, 3) THEN <<"Instance-3">> ELSE <<>>)
      /\ loaded.submitted = Range(Labels)

\* Tenant 3 was loaded and tenant 2, one variable of which is unset, was not.
C22_Witness ==
    /\ loaded # NotLoaded
    /\ Labels = <<"Instance-1", "Instance-3">>
    /\ Cardinality(SlotNames(2) \ environ) = 1

\* C23: every config returned has either the connection string and none of
\* the four discrete fields, or the four discrete fields and no connection
\* string; with DATABASE_URL and the discrete variables both set, the config
\* has the connection string.
C23_OneLocatorForm ==
    \A i \in DOMAIN loaded.load.configs :
       LET c == loaded.load.configs[i]
           discrete == {c.pg_host, c.pg_database, c.pg_user, c.pg_password}
       IN /\ \/ c.connection_string # Null /\ discrete = {Null}
             \/ c.connection_string = Null /\ Null \notin discrete
          /\ \A n \in Slots :
               (c.instance_name = InstanceName(n) /\ DbUrl(n) \in environ) =>
                  c.connection_string = "$" \o DbUrl(n)

\* Every variable is set but DATABASE_URL_2: tenant 1's config has the
\* connection string although its discrete variables are set too, tenant 2's
\* has the discrete fields.
C23_Witness ==
    /\ loaded.load.status = "ok" /\ Len(loaded.load.configs) = 3
    /\ environ = AllNames \ {"DATABASE_URL_2"}
    /\ loaded.load.configs[1].connection_string = "$DATABASE_URL"
    /\ loaded.load.configs[2].pg_host = "$PGHOST_2"

\* C24: the channel of a config is the one of its slot, and no two configs
\* returned have the same channel.
C24_ChannelPerSlot ==
    /\ \A i \in DOMAIN loaded.load.configs :
          LET c == loaded.load.configs[i] IN
          c.listen_channel =
             CASE c.instance_name = "Instance-1" -> "new_record_channel"
               [] c.instance_name = "Instance-2" -> "quote_request_channel"
               [] c.instance_name = "Instance-3" -> "contact_submission_channel"
    /\ \A i, j \in DOMAIN loaded.load.configs :
          i # j => loaded.load.configs[i].listen_channel
                   # loaded.load.configs[j].listen_channel

\* Three tenants were loaded, from their discrete database variables.
C24_Witness ==
    /\ Len(loaded.load.configs) = 3
    /\ \A n \in Slots : DbUrl(n) \notin environ

\* C39: normalizing a normalized record changes nothing, the record the
\* resolver was given is left as it was, and a contact submission the
\* resolver has normalized gives the message the record itself gives.
C39_NormalizeIdempotent ==
    [][/\ nrec' = nrec
       /\ nnorm'.done =>
            /\ nnorm'.val = NormalizeContact(nrec)
            /\ NormalizeContact(nnorm'.val) = nnorm'.val
       /\ (nmsg' # NoMessage /\ Classify(DOMAIN nrec) = "contact") =>
            nmsg' = Message(nrec)]_vars

\* A contact submission with a first and a last name was normalized by the
\* resolver, which gave it a name, and then formatted.
C39_Witness ==
    /\ {"inquiry_type", "first_name", "last_name"} \subseteq DOMAIN nrec
    /\ "name" \notin DOMAIN nrec
    /\ nnorm.done /\ "name" \in DOMAIN nnorm.val
    /\ nmsg # NoMessage /\ nmsg.kind = "contact"

\* C38: a resolver whose connection cannot be opened, or whose query fails,
\* ends as one that finds no row: the worker logs the skip, makes no token
\* request and no mail request, and is back in its loop, running, on the
\* same connection.
C38_FetchFailureIsNotFound ==
    [][\A t \in Tenants :
         (FetchOpen(t, "refused") \/ Fetch(t, "error")) =>
           /\ outcome'[t] = [how |-> "skipped", ev |-> ev[t], mails |-> 0,
                             req |-> NoRequest]
           /\ TokenRequests(t) = 0 /\ bearer[t] = NoToken
           /\ cacheVars' = cacheVars
           /\ task' = task /\ Running(t) /\ pc'[t] = "subscribed"
           /\ connVars' = connVars /\ conn[t] = "open"
           /\ fetch_conn'[t] = "none"
           /\ ev'[t] = NoEvent /\ rec'[t] = NoRecord /\ calls'[t] = <<>>]_vars

\* Both workers have skipped a reference and are subscribed, their
\* connections open, no resolver connection left and no token in the cache.
C38_Witness ==
    /\ \A t \in Tenants :
         /\ outcome[t].how = "skipped" /\ IsReference(outcome[t].ev)
         /\ pc[t] = "subscribed" /\ conn[t] = "open" /\ fetch_conn[t] = "none"
    /\ tokens = <<>> /\ issued = 0

\* C37: a worker that waits to reconnect or starts a connection attempt has
\* no connection: the one it had was closed and its reference cleared; a
\* connection is only ever opened by a connection attempt that starts from
\* none, so a worker never has two.
C37_OneSubscriptionConnection ==
    [][\A t \in Tenants :
         /\ pc'[t] \in {"sleep", "connect"} => conn'[t] = "none"
         /\ (conn'[t] = "open" /\ conn[t] # "open") =>
              (pc[t] = "connect" /\ conn[t] = "none")
         /\ (conn[t] = "open" /\ conn'[t] # "open") =>
              (conn'[t] = "none" /\ pc'[t] = "sleep")]_vars

\* Tenant 1's worker, whose open connection was lost, starts its next
\* attempt without a connection; tenant 2's worker is subscribed.
C37_Witness ==
    /\ pc[1] = "connect" /\ conn[1] = "none" /\ delay[1] = InitialDelay + DelayStep
    /\ pc[2] = "subscribed" /\ conn[2] = "open"

\* C36: the reconnect delay is never below InitialDelay nor above
\* DelayCapLong; the end of a wait never lowers it, nothing else but a
\* successful connect changes it, and a successful connect sets it to
\* InitialDelay and the attempt counter to 0.
C36_DelayBounded ==
    [][\A t \in Tenants :
         /\ InitialDelay <= delay'[t] /\ delay'[t] <= DelayCapLong
         /\ (pc[t] = "sleep" /\ pc'[t] = "connect") => delay'[t] >= delay[t]
         /\ (pc[t] = "connect" /\ pc'[t] = "subscribed") =>
              (delay'[t] = InitialDelay /\ attempts'[t] = 0)
         /\ delay'[t] # delay[t] =>
              \/ pc[t] = "sleep" /\ pc'[t] = "connect"
              \/ pc[t] = "connect" /\ pc'[t] = "subscribed"
         /\ pc'[t] = "subscribed" => (delay'[t] = InitialDelay /\ attempts'[t] = 0)]_vars

\* Tenant 1's worker is subscribed with the delay and the counter reset;
\* tenant 2's worker waits the longest delay it can reach after a failure.
C36_Witness ==
    /\ pc[1] = "subscribed" /\ delay[1] = InitialDelay /\ attempts[1] = 0
    /\ pc[2] = "sleep" /\ delay[2] = DelayCapShort /\ attempts[2] = 1

\* C32: the mail request is reached only with a token in hand; a token
\* request that fails, at once or in the second with block, ends the
\* notification's handling as failed with no mail request made, and the
\* worker is back in its loop on the same connection.
C32_NoMailWithoutToken ==
    [][\A t \in Tenants :
         /\ pc'[t] = "mail_http" => bearer'[t] # NoToken
         /\ (pc[t] = "tok_cs2" /\ body[t].status # "ok") =>
              pc'[t] \in {"tok_cs2", "subscribed"}
         /\ (pc[t] \in {"tok_http", "tok_cs2"} /\ pc'[t] \notin {pc[t], "tok_lock2", "mail_http"}) =>
              /\ outcome'[t] = [how |-> "failed", ev |-> ev[t], mails |-> 0,
                                req |-> NoRequest]
              /\ bearer[t] = NoToken /\ bearer'[t] = NoToken
              /\ Running(t)' /\ pc'[t] = "subscribed"
              /\ conn[t] = "open" /\ connVars' = connVars
              /\ ev'[t] = NoEvent]_vars

\* Tenant 1's worker has dropped a record it had resolved, because the token
\* request failed: no mail request was made, and it is subscribed.
C32_Witness ==
    /\ outcome[1].how = "failed" /\ outcome[1].mails = 0
    /\ outcome[1].ev.kind = "object" /\ IsReference(outcome[1].ev)
    /\ pc[1] = "subscribed" /\ conn[1] = "open"
    /\ tokens = <<>>

\* C35: from the moment a notification is taken to the end of its handling,
\* whatever fails, the worker's connection stays open, the attempt counter
\* and the delay stay as they are, and the worker does not go on to pause or
\* reconnect: it ends in the loop on the same connection.
C35_EventErrorKeepsSubscription ==
    [][\A t \in Tenants :
         pc[t] \in {"fetch", "send", "tok_cs1", "tok_http", "tok_lock2", "tok_cs2", "mail_http"} =>
           /\ conn[t] = "open" /\ conn'[t] = "open"
           /\ attempts'[t] = attempts[t] /\ delay'[t] = delay[t]
           /\ pc'[t] \notin {"sleep", "connect", "pause", "done"}
           /\ outcome'[t].how = "failed" => pc'[t] = "subscribed"]_vars

\* Tenant 1's mail request for a record it had resolved failed; the worker
\* is subscribed on its open connection, counter and delay untouched.
C35_Witness ==
    /\ outcome[1].how = "failed" /\ outcome[1].mails = 1
    /\ IsReference(outcome[1].ev)
    /\ pc[1] = "subscribed" /\ conn[1] = "open"
    /\ attempts[1] = 0 /\ delay[1] = InitialDelay

\* A step of the worker of tenant t: the supervisor's position and the other
\* tenants' workers and tasks stay as they are.
WorkerStep(t) ==
    /\ Running(t)
    /\ supVars' = supVars
    /\ \A u \in Tenants \ {t} : Local(u)' = Local(u)

\* C31: a connection is opened, and an open connection is closed, only by a
\* step of the running worker of its tenant; a step of the supervisor opens
\* none: the listener it submits, like the ones submitted at startup, starts
\* without a connection and connects in its own task.
C31_ConnectionOwnedByWorker ==
    [][\A t \in Tenants :
         /\ (conn'[t] = "open" /\ conn[t] # "open") =>
              (WorkerStep(t) /\ pc[t] = "connect" /\ fut'[t] = fut[t])
         /\ (conn[t] = "open" /\ conn'[t] # "open" /\ fut'[t] = fut[t]) =>
              (WorkerStep(t) /\ pc[t] = "subscribed")
         /\ fut'[t] # fut[t] =>
              (conn'[t] = "none" /\ pc'[t] = "connect")
         /\ supVars' # supVars => conn'[t] # "open" \/ conn[t] = "open"]_vars

\* Tenant 1's worker, restarted by the supervisor, has connected and
\* subscribed by itself, as tenant 2's first worker has.
C31_Witness ==
    /\ fut[1] = 1 /\ Running(1) /\ pc[1] = "subscribed" /\ conn[1] = "open"
    /\ fut[2] = 0 /\ Running(2) /\ pc[2] = "subscribed" /\ conn[2] = "open"
    /\ supPc = "sleep"

\* C33: the token graph_token returns to a worker was issued for a request
\* made with that worker's own client id and client secret.
C33_TokenFromOwnCredentials ==
    \A t \in Tenants : bearer[t] # NoToken => bearer[t].client = t

\* C34: the supervisor replaces a tenant's tracked task only when that task
\* has terminated, by one running task, so no tenant ever has two tasks; the
\* tenants with a tracked task are the tenants whose config was loaded.
C34_OneTaskPerTenant ==
    [][/\ \A t \in Tenants :
            fut'[t] # fut[t] =>
              /\ Done(t) /\ Running(t)'
              /\ fut'[t] = fut[t] + 1
              /\ supPc = "poll" /\ supIdx = t
              /\ \A u \in Tenants \ {t} : fut'[u] = fut[u] /\ task'[u] = task[u]
       /\ \A t \in Tenants : (Running(t)' /\ ~Running(t)) => fut'[t] # fut[t]
       /\ {InstanceName(t) : t \in DOMAIN fut'} = loaded'.submitted
       /\ loaded'.submitted
            = {loaded'.load.configs[i].instance_name : i \in DOMAIN loaded'.load.configs}]_vars

\* Tenant 2's task has been replaced twice, each time after it had ended;
\* tenant 1's first task has ended and is not replaced before the next poll.
C34_Witness ==
    /\ fut[2] = 2 /\ Running(2) /\ pc[2] = "connect"
    /\ fut[1] = 0 /\ Done(1)
    /\ supPc = "sleep"

====
